---- MODULE Spec2Model ----
(***************************************************************************)
(* A model of DeltaSnapshot, the lazy file list of the delta extension     *)
(* (src/src/functions/delta_scan.cpp): the list's fields, the kernel scan  *)
(* iterator it pulls from, and the worker threads that call its public     *)
(* operations under the list's mutex.                                      *)
(***************************************************************************)
EXTENDS Integers, Sequences, FiniteSets, TLC

(***************************************************************************)
(* Bounds of the model.                                                     *)
(***************************************************************************)
MaxFiles == 2
MaxBatches == 2
MaxBatchSize == 2
MaxPushdowns == 1
MaxPlanPushdowns == 3
MaxChunk == 3
MaxOrdinal == 3
MaxDvLen == 3
MaxProjection == 3
MaxMapped == 2
MaxCommits == 1

Threads == {"t1", "t2"}
Lists == {"orig", "fork", "fork2"}

(***************************************************************************)
(* Program constants.                                                       *)
(***************************************************************************)
\* DConstants::INVALID_INDEX, idx_t(-1): "no cardinality" / "no index".
INVALID_INDEX == -1
\* What ffi::version answers for the snapshot.
SnapshotVersion == 4
COLUMN_IDENTIFIER_ROW_ID == 2147483647

EmptyPath == <<>>
NoCall == <<"nocall">>
NoThread == "free"

\* The table schema SchemaVisitor::VisitSnapshotSchema reads from the snapshot.
Schema ==
    << [name |-> "id", type |-> "BIGINT"], [name |-> "region", type |-> "VARCHAR"] >>

SchemaNames == [k \in 1..Len(Schema) |-> Schema[k].name]
SchemaTypes == [k \in 1..Len(Schema) |-> Schema[k].type]

Range(f) == {f[x] : x \in DOMAIN f}

RECURSIVE SumSeq(_)
SumSeq(s) == IF s = <<>> THEN 0 ELSE Head(s) + SumSeq(Tail(s))

RECURSIVE Flatten(_)
Flatten(ss) == IF ss = <<>> THEN <<>> ELSE Head(ss) \o Flatten(Tail(ss))

(***************************************************************************)
(* The log as the kernel replays it: a sequence of scan-data batches, each  *)
(* a sequence of add-file entries (path, stats, deletion vector, partition  *)
(* values).  A pull of the scan iterator hands one batch to the visitor.    *)
(***************************************************************************)
FileKinds ==
    { [stats |-> [present |-> TRUE, num_records |-> 2], dv |-> <<>>,
       part |-> [c \in {"region"} |-> "us"]],
      [stats |-> [present |-> FALSE, num_records |-> 0], dv |-> <<>>,
       part |-> [c \in {"region"} |-> "eu"]] }

Shapes ==
    {s \in UNION {[1..n -> 0..MaxBatchSize] : n \in 0..MaxBatches} : SumSeq(s) <= MaxFiles}

TableOf(shape, kinds) ==
    [b \in 1..Len(shape) |->
        [j \in 1..shape[b] |->
            LET id == SumSeq(SubSeq(shape, 1, b - 1)) + j
            IN  [id |-> id, stats |-> kinds[id].stats, dv |-> kinds[id].dv,
                 part |-> kinds[id].part]]]

Tables ==
    UNION {{TableOf(s, k) : k \in [1..SumSeq(s) -> FileKinds]} : s \in Shapes}

\* File-level pruning of the scan: a file whose partition value contradicts
\* the pushed filter is deselected in its batch.
Keeps(pred, f) ==
    \/ pred = "none"
    \/ "region" \notin DOMAIN f.part
    \/ f.part["region"] = pred

VARIABLES
    table,      \* the log the snapshot sees: a sequence of batches of files
    head,       \* the latest version of the table's log
    lists,      \* the fields of each DeltaSnapshot
    forked,     \* the filtered lists ComplexFilterPushdown has made
    lock,       \* each list's mutex: the thread holding it, or NoThread
    th,         \* each thread's position and locals
    ret,        \* history: the first path GetFile(i) returned, per list
    forced,     \* history: a full expansion has been asked of the list
    opens,      \* history: number of ffi::snapshot calls
    pushdowns,  \* number of ComplexFilterPushdown calls so far
    info,       \* MultiFilePushdownInfo::extra_info of the plan node
    reader      \* DeltaMultiFileReader at work on one file: its position and data

vars == <<table, head, lists, forked, lock, th, ret, forced, opens, pushdowns, info, reader>>

\* What the file lists and their callers are made of.
listVars == <<table, head, lists, forked, lock, th, ret, forced, opens, pushdowns, info>>

\* No reader call is looked at.
NoReader == [pc |-> "none"]

Indices == 0..MaxFiles

(***************************************************************************)
(* DeltaSnapshot: construction and the private helpers.                     *)
(***************************************************************************)
\* The null snapshot pointer, and what ffi::snapshot answers: a new snapshot
\* of the table at the version the log has then.
NoSnapshot == [id |-> 0, version |-> 0]

OpenSnapshot == [id |-> opens + 1, version |-> head]

\* Mutant: a new list is born exhausted.
NewListExhausted(filters) ==
    [initialized_snapshot |-> FALSE, initialized_scan |-> FALSE,
     have_bound |-> FALSE, names |-> <<>>, types |-> <<>>,
     snapshot |-> NoSnapshot, table_filters |-> filters, scan_pred |-> "none",
     scan_pos |-> 0, scan_inits |-> 0, files_exhausted |-> TRUE, version |-> 0,
     resolved_files |-> <<>>, metadata |-> <<>>]

\* make_uniq<DeltaSnapshot>: nothing opened, nothing discovered.
NewList(filters) ==
    [initialized_snapshot |-> FALSE, initialized_scan |-> FALSE,
     have_bound |-> FALSE, names |-> <<>>, types |-> <<>>,
     snapshot |-> NoSnapshot, table_filters |-> filters,
     scan_pred |-> "none", scan_pos |-> 0, scan_inits |-> 0,
     files_exhausted |-> FALSE, version |-> 0,
     resolved_files |-> <<>>, metadata |-> <<>>]

\* InitializeSnapshot: builds the engine, opens the snapshot unless one was
\* handed over already.
InitializeSnapshot(s, handle) ==
    [s EXCEPT !.snapshot = IF s.snapshot = NoSnapshot THEN handle ELSE @,
              !.initialized_snapshot = TRUE]

\* InitializeScan: creates the scan under the list's filters, reads the
\* version and creates the scan data iterator.
InitializeScan(s) ==
    [s EXCEPT !.scan_pred = s.table_filters,
              !.version = s.snapshot.version,
              !.scan_pos = 0,
              !.scan_inits = @ + 1,
              !.initialized_scan = TRUE]

\* Mutant: the scan is created on every call.
NeedInitScanAlways(s) == TRUE

NeedInitScan(s) == ~s.initialized_scan

\* What the scan iterator of list s yields, batch by batch.
ScanBatches(s) ==
    [b \in 1..Len(table) |-> SelectSeq(table[b], LAMBDA f : Keeps(s.scan_pred, f))]

ResolvedPath(f) == <<"tbl", f.id>>

\* Mutant: the file number is taken as the size after the append.
FileMetaDataNumberIsSize(s, f) ==
    [delta_snapshot_version |-> s.version,
     file_number |-> Len(s.resolved_files) + 1,
     cardinality |-> IF f.stats.present THEN f.stats.num_records ELSE INVALID_INDEX,
     selection_vector |-> f.dv,
     partition_map |-> [c \in {n \in Range(s.names) : n \in DOMAIN f.part} |-> f.part[c]]]

FileMetaData(s, f) ==
    [delta_snapshot_version |-> s.version,
     file_number |-> (Len(s.resolved_files) + 1) - 1,
     cardinality |-> IF f.stats.present THEN f.stats.num_records ELSE INVALID_INDEX,
     selection_vector |-> f.dv,
     partition_map |-> [c \in {n \in Range(s.names) : n \in DOMAIN f.part} |-> f.part[c]]]

\* VisitCallback: the visitor the kernel calls once per selected file.
VisitCallback(s, f) ==
    [s EXCEPT !.resolved_files = Append(@, ResolvedPath(f)),
              !.metadata = Append(@, FileMetaData(s, f))]

\* Mutant: the lookup misses the last materialized file.
HaveFileOffByOne(s, i) == i + 1 < Len(s.resolved_files)

\* "We already have this file".
HaveFile(s, i) == i < Len(s.resolved_files)

\* Mutant: the loop pulls until one file more than asked is there.
LoopAgainOneMore(s, i) == i + 1 >= Len(s.resolved_files)

\* The test of the while loop.
LoopAgain(s, i) == i >= Len(s.resolved_files)

\* Mutant: the exhaustion is not remembered.
MarkExhaustedForgotten(s) == s

MarkExhausted(s) == [s EXCEPT !.files_exhausted = TRUE]

\* Mutant: a lock guard that goes out of scope keeps the mutex.
ReleaseNever(l) == UNCHANGED lock

\* ~unique_lock
Release(l) == lock' = [lock EXCEPT ![l] = NoThread]

\* Mutant: the operations do not wait for the mutex.
LockFreeAlways(l) == TRUE

\* unique_lock<mutex> lck(lock) can be taken.
LockFree(l) == lock[l] = NoThread

IdleThread ==
    [pc |-> "idle", op |-> "none", l |-> "orig", i |-> 0, res |-> <<>>,
     have |-> FALSE, batch |-> <<>>, pulls |-> 0, again |-> FALSE,
     wasEmpty |-> FALSE, stage |-> "none", diag |-> FALSE,
     old_total |-> 0, new_total |-> 0,
     parent |-> "orig", child |-> "fork", filters |-> "none",
     profiler |-> FALSE, setting |-> FALSE]

\* The lists as constructed, nothing called yet.
InitLists ==
    /\ head = SnapshotVersion
    /\ lists = [l \in Lists |-> NewList("none")]
    /\ forked = {}
    /\ lock = [l \in Lists |-> NoThread]
    /\ th = [t \in Threads |-> IdleThread]
    /\ ret = [l \in Lists |-> [i \in Indices |-> NoCall]]
    /\ forced = [l \in Lists |-> FALSE]
    /\ opens = 0
    /\ pushdowns = 0
    /\ info = [total_files |-> INVALID_INDEX, filtered_files |-> INVALID_INDEX,
               file_filters |-> <<>>]

Init ==
    /\ table \in Tables
    /\ InitLists
    /\ reader = NoReader

Acquire(l, t) == lock' = [lock EXCEPT ![l] = t]
SetThread(t, rec) == th' = [th EXCEPT ![t] = rec]
SetList(l, s) == lists' = [lists EXCEPT ![l] = s]

(***************************************************************************)
(* GetFile(i): takes the list's lock and runs GetFileInternal(i).           *)
(***************************************************************************)
GetFile(t, l, i) ==
    /\ th[t].pc = "idle"
    /\ LockFree(l)
    /\ Acquire(l, t)
    /\ SetThread(t, [IdleThread EXCEPT
            !.pc = "gfi", !.op = "GetFile", !.l = l, !.i = i,
            !.again = (ret[l][i] # NoCall),
            !.wasEmpty = (\E j \in 0..i : ret[l][j] = EmptyPath)])
    /\ UNCHANGED <<table, head, reader, lists, forked, ret, forced, opens, pushdowns, info>>

(***************************************************************************)
(* GetFileInternal(i), up to the loop: initializes the snapshot and the     *)
(* scan when needed, answers from the store or from the exhausted flag.     *)
(***************************************************************************)
GetFileInternal(t) ==
    /\ th[t].pc = "gfi"
    /\ LET l  == th[t].l
           i  == th[t].i
           s  == lists[l]
           s1 == IF ~s.initialized_snapshot THEN InitializeSnapshot(s, OpenSnapshot) ELSE s
           s2 == IF NeedInitScan(s1) THEN InitializeScan(s1) ELSE s1
       IN  /\ SetList(l, s2)
           /\ opens' = IF ~s.initialized_snapshot /\ s.snapshot = NoSnapshot THEN opens + 1 ELSE opens
           /\ IF HaveFile(s2, i)
                 THEN SetThread(t, [th[t] EXCEPT !.pc = "gfi_ret", !.res = s2.resolved_files[i + 1]])
                 ELSE IF s2.files_exhausted
                         THEN SetThread(t, [th[t] EXCEPT !.pc = "gfi_ret", !.res = EmptyPath])
                         ELSE SetThread(t, [th[t] EXCEPT !.pc = "pull"])
    /\ UNCHANGED <<table, head, reader, forked, lock, ret, forced, pushdowns, info>>

\* History: the pulls a GetFile call has made.
CountPull(rec) == IF rec.op = "GetFile" THEN rec.pulls + 1 ELSE rec.pulls

\* ffi::kernel_scan_data_next: the iterator hands its next batch to the
\* visitor and answers true, or answers false when it has none left.
KernelScanDataNext(t) ==
    /\ th[t].pc = "pull"
    /\ LET l == th[t].l
           s == lists[l]
           batches == ScanBatches(s)
       IN  IF s.scan_pos < Len(batches)
              THEN /\ SetList(l, [s EXCEPT !.scan_pos = @ + 1])
                   /\ SetThread(t, [th[t] EXCEPT !.pc = "visit", !.have = TRUE,
                                       !.batch = batches[s.scan_pos + 1],
                                       !.pulls = CountPull(th[t])])
              ELSE /\ SetThread(t, [th[t] EXCEPT !.pc = "pulled", !.have = FALSE,
                                       !.pulls = CountPull(th[t])])
                   /\ UNCHANGED lists
    /\ UNCHANGED <<table, head, reader, forked, lock, ret, forced, opens, pushdowns, info>>

\* VisitData / visit_scan_data: one VisitCallback per selected file of the batch.
VisitData(t) ==
    /\ th[t].pc = "visit"
    /\ LET l == th[t].l
       IN  IF th[t].batch # <<>>
              THEN /\ SetList(l, VisitCallback(lists[l], Head(th[t].batch)))
                   /\ SetThread(t, [th[t] EXCEPT !.batch = Tail(@)])
              ELSE /\ SetThread(t, [th[t] EXCEPT !.pc = "pulled"])
                   /\ UNCHANGED lists
    /\ UNCHANGED <<table, head, reader, forked, lock, ret, forced, opens, pushdowns, info>>

\* The rest of the loop body and the loop test of GetFileInternal.
\* Mutant: a pull that does not bring file i ends the enumeration.
ScanExhaustedIfNotReached(rec) ==
    ~rec.have \/ rec.i >= Len(lists[rec.l].resolved_files)

\* Mutant: the end of the scan is not seen.
ScanExhaustedNever(rec) == FALSE

\* "kernel has indicated that we have no more data to scan".
ScanExhausted(rec) == ~rec.have

AfterPull(t) ==
    /\ th[t].pc = "pulled"
    /\ LET l == th[t].l
           i == th[t].i
           s == lists[l]
           r == [th[t] EXCEPT !.have = FALSE]
       IN  IF ScanExhausted(th[t])
              THEN /\ SetList(l, MarkExhausted(s))
                   /\ SetThread(t, [r EXCEPT !.pc = "gfi_ret", !.res = EmptyPath])
              ELSE /\ UNCHANGED lists
                   /\ IF LoopAgain(s, i)
                         THEN SetThread(t, [r EXCEPT !.pc = "pull"])
                         ELSE SetThread(t, [r EXCEPT !.pc = "gfi_ret",
                                               !.res = s.resolved_files[i + 1]])
    /\ UNCHANGED <<table, head, reader, forked, lock, ret, forced, opens, pushdowns, info>>

\* GetFile returns: the lock guard is destroyed, the caller has the path.
GetFileReturn(t) ==
    /\ th[t].pc = "gfi_ret"
    /\ th[t].op = "GetFile"
    /\ Release(th[t].l)
    /\ ret' = [ret EXCEPT ![th[t].l][th[t].i] = IF @ = NoCall THEN th[t].res ELSE @]
    /\ SetThread(t, IdleThread)
    /\ UNCHANGED <<table, head, reader, lists, forked, forced, opens, pushdowns, info>>

(***************************************************************************)
(* GetAllFiles / GetTotalFileCount: under the lock, GetFileInternal(i) from *)
(* i = resolved_files.size() upwards until it answers the empty path.       *)
(***************************************************************************)
StartTotal(t, op, l, stage) ==
    /\ LockFree(l)
    /\ Acquire(l, t)
    /\ SetThread(t, [th[t] EXCEPT !.pc = "gfi", !.op = op, !.l = l,
                        !.stage = stage, !.i = Len(lists[l].resolved_files)])
    /\ forced' = [forced EXCEPT ![l] = TRUE]

GetAllFiles(t, l) ==
    /\ th[t].pc = "idle"
    /\ StartTotal(t, "GetAllFiles", l, "none")
    /\ UNCHANGED <<table, head, reader, lists, forked, ret, opens, pushdowns, info>>

GetTotalFileCount(t, l) ==
    /\ th[t].pc = "idle"
    /\ StartTotal(t, "GetTotalFileCount", l, "none")
    /\ UNCHANGED <<table, head, reader, lists, forked, ret, opens, pushdowns, info>>

TotalOps == {"GetAllFiles", "GetTotalFileCount", "GetCardinality", "ComplexFilterPushdown"}

TotalLoop(t) ==
    /\ th[t].pc = "gfi_ret"
    /\ th[t].op \in TotalOps
    /\ LET s == lists[th[t].l]
       IN  IF th[t].res # EmptyPath
              THEN SetThread(t, [th[t] EXCEPT !.pc = "gfi", !.i = @ + 1])
              ELSE SetThread(t, [th[t] EXCEPT !.pc = "total_ret",
                                     !.res = IF th[t].op = "GetAllFiles"
                                                THEN s.resolved_files
                                                ELSE Len(s.resolved_files)])
    /\ UNCHANGED <<table, head, reader, lists, forked, lock, ret, forced, opens, pushdowns, info>>

TotalReturn(t) ==
    /\ th[t].pc = "total_ret"
    /\ Release(th[t].l)
    /\ IF th[t].op = "GetCardinality"
          THEN SetThread(t, [th[t] EXCEPT !.pc = "card_lock"])
          ELSE IF th[t].op = "ComplexFilterPushdown"
                  THEN IF th[t].stage = "old"
                          THEN SetThread(t, [th[t] EXCEPT !.pc = "cfp_new", !.old_total = th[t].res])
                          ELSE SetThread(t, [th[t] EXCEPT !.pc = "cfp_record", !.new_total = th[t].res])
                  ELSE SetThread(t, IdleThread)
    /\ UNCHANGED <<table, head, reader, lists, forked, ret, forced, opens, pushdowns, info>>

(***************************************************************************)
(* GetCardinality: GetTotalFileCount, then the sum of the files' row counts *)
(* under the lock taken again.                                              *)
(***************************************************************************)
NodeStatistics(est, max) ==
    [has_stats |-> TRUE, estimated_cardinality |-> est, max_cardinality |-> max]

NoStatistics ==
    [has_stats |-> FALSE, estimated_cardinality |-> 0, max_cardinality |-> 0]

\* Mutant: every file counts as having a row count.
HasCardinalityAlways(m) == TRUE

HasCardinality(m) == m.cardinality # INVALID_INDEX

\* Mutant: the files are counted, not their rows.
SumCardinalityCountsFiles(ms) == Len(ms)

RECURSIVE SumCardinality(_)
SumCardinality(ms) ==
    IF ms = <<>> THEN 0
    ELSE (IF HasCardinality(Head(ms)) THEN Head(ms).cardinality ELSE 0)
         + SumCardinality(Tail(ms))

CardinalityOf(s, total_file_count) ==
    IF total_file_count = 0
       THEN NodeStatistics(0, 0)
       ELSE IF \E k \in 1..Len(s.metadata) : HasCardinality(s.metadata[k])
               THEN NodeStatistics(SumCardinality(s.metadata), SumCardinality(s.metadata))
               ELSE NoStatistics

GetCardinality(t, l) ==
    /\ th[t].pc = "idle"
    /\ StartTotal(t, "GetCardinality", l, "none")
    /\ UNCHANGED <<table, head, reader, lists, forked, ret, opens, pushdowns, info>>

GetCardinalityCount(t) ==
    /\ th[t].pc = "card_lock"
    /\ LockFree(th[t].l)
    /\ Acquire(th[t].l, t)
    /\ SetThread(t, [th[t] EXCEPT !.pc = "card_ret",
                        !.res = CardinalityOf(lists[th[t].l], th[t].res)])
    /\ UNCHANGED <<table, head, reader, lists, forked, ret, forced, opens, pushdowns, info>>

\* The end of an operation that returns with the lock guard still alive.
ReturnPcs == {"card_ret", "ver_ret", "meta_ret", "bind_ret"}

Return(t) ==
    /\ th[t].pc \in ReturnPcs
    /\ Release(th[t].l)
    /\ SetThread(t, IdleThread)
    /\ UNCHANGED <<table, head, reader, lists, forked, ret, forced, opens, pushdowns, info>>

(***************************************************************************)
(* Bind: under the lock, answers the cached schema or reads it from the     *)
(* snapshot and stores it.                                                  *)
(***************************************************************************)
\* Mutant: the schema is read on every call.
HaveBoundNever(s) == FALSE

HaveBound(s) == s.have_bound

Bind(t, l) ==
    /\ th[t].pc = "idle"
    /\ LockFree(l)
    /\ Acquire(l, t)
    /\ LET s == lists[l]
       IN  IF HaveBound(s)
              THEN /\ SetThread(t, [IdleThread EXCEPT !.pc = "bind_ret", !.op = "Bind",
                                       !.l = l, !.res = <<s.names, s.types>>])
                   /\ UNCHANGED <<lists, opens>>
              ELSE /\ SetThread(t, [IdleThread EXCEPT !.pc = "bind_store", !.op = "Bind",
                                       !.l = l])
                   /\ SetList(l, IF ~s.initialized_snapshot
                                    THEN InitializeSnapshot(s, OpenSnapshot) ELSE s)
                   /\ opens' = IF ~s.initialized_snapshot /\ s.snapshot = NoSnapshot
                                  THEN opens + 1 ELSE opens
    /\ UNCHANGED <<table, head, reader, forked, ret, forced, pushdowns, info>>

BindStore(t) ==
    /\ th[t].pc = "bind_store"
    /\ SetList(th[t].l, [lists[th[t].l] EXCEPT !.have_bound = TRUE,
                            !.names = SchemaNames, !.types = SchemaTypes])
    /\ SetThread(t, [th[t] EXCEPT !.pc = "bind_ret", !.res = <<SchemaNames, SchemaTypes>>])
    /\ UNCHANGED <<table, head, reader, forked, lock, ret, forced, opens, pushdowns, info>>

\* What a read of the version field can give before InitializeScan has set it.
UnsetVersions == {0, INVALID_INDEX, SnapshotVersion}

GetVersion(t, l) ==
    /\ th[t].pc = "idle"
    /\ LockFree(l)
    /\ Acquire(l, t)
    /\ \E v \in (IF lists[l].initialized_scan THEN {lists[l].version} ELSE UnsetVersions) :
          SetThread(t, [IdleThread EXCEPT !.pc = "ver_ret", !.op = "GetVersion",
                           !.l = l, !.res = v])
    /\ UNCHANGED <<table, head, reader, lists, forked, ret, forced, opens, pushdowns, info>>

GetMetaData(t, l, index) ==
    /\ th[t].pc = "idle"
    /\ LockFree(l)
    /\ index < Len(lists[l].metadata)
    /\ Acquire(l, t)
    /\ SetThread(t, [IdleThread EXCEPT !.pc = "meta_ret", !.op = "GetMetaData", !.l = l,
                        !.i = index, !.res = lists[l].metadata[index + 1]])
    /\ UNCHANGED <<table, head, reader, lists, forked, ret, forced, opens, pushdowns, info>>

(***************************************************************************)
(* ComplexFilterPushdown: makes the filtered list, hands it the bound names *)
(* and the snapshot, and with profiling on counts the files of both lists.  *)
(***************************************************************************)
Filters == {"us", "eu"}

\* Mutant: an empty filter set is pushed like any other.
FiltersEmptyNever(filt) == FALSE

\* filters.empty()
FiltersEmpty(filt) == filt = "empty"

\* Mutant: the counts are taken whatever the profiler and the setting say.
DiagnosticModeAlways(profiler, setting) == TRUE

\* profiler.IsEnabled() and the delta_scan_explain_files_filtered setting.
DiagnosticMode(profiler, setting) == profiler /\ setting

\* this->names as a reader without the lock can see it: the stored value, or
\* any part of the new value while Bind is storing it.
NamesSeenUnlocked(t, l) ==
    IF \E u \in Threads \ {t} : th[u].pc = "bind_store" /\ th[u].l = l
       THEN {SubSeq(SchemaNames, 1, k) : k \in 0..Len(SchemaNames)} \cup {lists[l].names}
       ELSE {lists[l].names}

\* The lists that exist.
Alive == {"orig"} \cup forked

\* ComplexFilterPushdown called on list parent; the filtered list it makes
\* is held in child.
ComplexFilterPushdown(t, parent, child) ==
    /\ th[t].pc = "idle"
    /\ parent \in Alive
    /\ child \notin {"orig", parent}
    /\ \A u \in Threads : th[u].op # "ComplexFilterPushdown"
    /\ \A u \in Threads : th[u].pc # "idle" => th[u].l # child
    /\ pushdowns' = pushdowns + 1
    /\ \E filt \in Filters \cup {"empty"}, profiler \in BOOLEAN, setting \in BOOLEAN :
          IF FiltersEmpty(filt)
             THEN /\ SetThread(t, [IdleThread EXCEPT !.pc = "cfp_ret",
                                      !.op = "ComplexFilterPushdown", !.res = "nullptr",
                                      !.parent = parent, !.child = child,
                                      !.filters = filt,
                                      !.profiler = profiler, !.setting = setting])
                  /\ UNCHANGED <<lists, forked, ret, forced>>
             ELSE /\ SetThread(t, [IdleThread EXCEPT !.pc = "cfp_names",
                                      !.op = "ComplexFilterPushdown",
                                      !.parent = parent, !.child = child,
                                      !.filters = filt,
                                      !.profiler = profiler, !.setting = setting,
                                      !.diag = DiagnosticMode(profiler, setting)])
                  /\ SetList(child, NewList(filt))
                  /\ forked' = forked \cup {child}
                  /\ ret' = [ret EXCEPT ![child] = [i \in Indices |-> NoCall]]
                  /\ forced' = [forced EXCEPT ![child] = FALSE]
    /\ UNCHANGED <<table, head, reader, lock, opens, info>>

\* filtered_list->names = names, outside the lock.
CopyNames(t) ==
    /\ th[t].pc = "cfp_names"
    /\ \E n \in NamesSeenUnlocked(t, th[t].parent) :
          SetList(th[t].child, [lists[th[t].child] EXCEPT !.names = n])
    /\ SetThread(t, [th[t] EXCEPT !.pc = "cfp_snapshot"])
    /\ UNCHANGED <<table, head, reader, forked, lock, ret, forced, opens, pushdowns, info>>

\* filtered_list->snapshot = snapshot, inside the lock.
CopySnapshot(t) ==
    /\ th[t].pc = "cfp_snapshot"
    /\ LockFree(th[t].parent)
    /\ SetList(th[t].child,
               [lists[th[t].child] EXCEPT !.snapshot = lists[th[t].parent].snapshot])
    /\ SetThread(t, IF th[t].diag
                       THEN [th[t] EXCEPT !.pc = "cfp_old"]
                       ELSE [th[t] EXCEPT !.pc = "cfp_ret", !.res = "fork"])
    /\ UNCHANGED <<table, head, reader, forked, lock, ret, forced, opens, pushdowns, info>>

CountOld(t) ==
    /\ th[t].pc = "cfp_old"
    /\ StartTotal(t, "ComplexFilterPushdown", th[t].parent, "old")
    /\ UNCHANGED <<table, head, reader, lists, forked, ret, opens, pushdowns, info>>

CountNew(t) ==
    /\ th[t].pc = "cfp_new"
    /\ StartTotal(t, "ComplexFilterPushdown", th[t].child, "new")
    /\ UNCHANGED <<table, head, reader, lists, forked, ret, opens, pushdowns, info>>

\* The rendering of the pushed filters: one line per filter whose column
\* index is within the names.
FiltersInfo(filters, names) ==
    IF filters \in Filters /\ 1 < Len(names) THEN <<names[2], filters>> ELSE <<>>

\* Mutant: any total is accepted next to the recorded one.
TotalInconsistentNever(recorded, old_total) == FALSE

\* total_files is valid and smaller than old_total.
TotalInconsistent(recorded, old_total) ==
    recorded # INVALID_INDEX /\ recorded < old_total

\* Mutant: any filtered count is taken over the recorded one.
FilteredConsistentAlways(recorded, new_total) == TRUE

\* filtered_files is not valid, or not smaller than new_total.
FilteredConsistent(recorded, new_total) ==
    recorded = INVALID_INDEX \/ recorded >= new_total

RecordCounts(t) ==
    /\ th[t].pc = "cfp_record"
    /\ \E n \in NamesSeenUnlocked(t, th[t].parent) :
        LET old_total == th[t].old_total
            new_total == th[t].new_total
            info1 == IF old_total # new_total
                        THEN [info EXCEPT !.file_filters =
                                 FiltersInfo(lists[th[t].child].table_filters, n)]
                        ELSE info
            total_bad == TotalInconsistent(info1.total_files, old_total)
            info2 == IF info1.total_files = INVALID_INDEX
                        THEN [info1 EXCEPT !.total_files = old_total] ELSE info1
            filtered_ok == FilteredConsistent(info2.filtered_files, new_total)
            info3 == [info2 EXCEPT !.filtered_files = new_total]
        IN  IF total_bad
               THEN /\ info' = info1
                    /\ SetThread(t, [th[t] EXCEPT !.pc = "cfp_ret", !.res = "InternalException"])
               ELSE IF filtered_ok
                       THEN /\ info' = info3
                            /\ SetThread(t, [th[t] EXCEPT !.pc = "cfp_ret", !.res = "fork"])
                       ELSE /\ info' = info2
                            /\ SetThread(t, [th[t] EXCEPT !.pc = "cfp_ret",
                                                !.res = "InternalException"])
    /\ UNCHANGED <<table, head, reader, lists, forked, lock, ret, forced, opens, pushdowns>>

\* The pushdown returns the filtered list, or nothing; thrown out of, the
\* filtered list is destroyed with the frame.
PushdownReturn(t) ==
    /\ th[t].pc = "cfp_ret"
    /\ SetThread(t, IdleThread)
    /\ IF th[t].res = "InternalException"
          THEN /\ forked' = forked \ {th[t].child}
               /\ SetList(th[t].child, NewList("none"))
          ELSE UNCHANGED <<lists, forked>>
    /\ UNCHANGED <<table, head, reader, lock, ret, forced, opens, pushdowns, info>>

\* The first pushdown of the plan: the original list gets its filtered list.
PushdownOfOriginal(t) ==
    /\ pushdowns < MaxPushdowns
    /\ ComplexFilterPushdown(t, "orig", "fork")

\* The steps inside GetFileInternal and the returns of the operations.
Steps(t) ==
    \/ GetFileInternal(t)
    \/ KernelScanDataNext(t)
    \/ VisitData(t)
    \/ AfterPull(t)
    \/ GetFileReturn(t)
    \/ TotalLoop(t)
    \/ TotalReturn(t)
    \/ BindStore(t)
    \/ Return(t)

\* The public operations the threads call on the list.
Calls(t, l) ==
    \/ \E i \in Indices : GetFile(t, l, i)
    \/ GetAllFiles(t, l)
    \/ GetTotalFileCount(t, l)
    \/ GetCardinality(t, l)
    \/ Bind(t, l)
    \/ GetVersion(t, l)
    \/ \E index \in Indices : GetMetaData(t, l, index)

Pushdown(t) ==
    \/ PushdownOfOriginal(t)
    \/ CopyNames(t)
    \/ CopySnapshot(t)
    \/ CountOld(t)
    \/ CountNew(t)
    \/ RecordCounts(t)
    \/ PushdownReturn(t)

\* Worker threads on one list.
Next == \E t \in Threads : Calls(t, "orig") \/ GetCardinalityCount(t) \/ Steps(t)

Spec == Init /\ [][Next]_vars

\* The same threads under a fair scheduler: a thread inside an operation
\* takes its next step, a thread blocked at a mutex that is unlocked again
\* and again gets it, and a reader is waiting for each file index.
Reader == "t2"

\* The operations that expand the list, called by any thread at any time.
Expansions(t, l) ==
    \/ \E i \in Indices : GetFile(t, l, i)
    \/ GetAllFiles(t, l)
    \/ GetTotalFileCount(t, l)
    \/ GetCardinality(t, l)

StepsOfExpansion(t) ==
    \/ GetFileInternal(t)
    \/ KernelScanDataNext(t)
    \/ VisitData(t)
    \/ AfterPull(t)
    \/ GetFileReturn(t)
    \/ TotalLoop(t)
    \/ TotalReturn(t)
    \/ Return(t)

Fairness ==
    /\ \A t \in Threads : WF_vars(StepsOfExpansion(t))
    /\ \A t \in Threads : SF_vars(GetCardinalityCount(t))
    /\ \A i \in Indices : SF_vars(GetFile(Reader, "orig", i))

NextLive ==
    \E t \in Threads :
        Expansions(t, "orig") \/ GetCardinalityCount(t) \/ StepsOfExpansion(t)

SpecLive == Init /\ [][NextLive]_vars /\ Fairness

\* The planner pushing filters into a list that is being bound and read.
NextPushdown ==
    \E t \in Threads :
        \/ GetFile(t, "orig", 0)
        \/ GetTotalFileCount(t, "orig")
        \/ Bind(t, "orig")
        \/ Steps(t)
        \/ Pushdown(t)

SpecPushdown == Init /\ [][NextPushdown]_vars

(***************************************************************************)
(* Two lists made over the same table with the same (empty) filter set,    *)
(* each driven by its own GetFile and Bind calls, in any order, the calls  *)
(* on the two lists alternating in any way.                                *)
(***************************************************************************)
TwoLists == {"orig", "fork"}

Driver(l) == IF l = "orig" THEN "t1" ELSE "t2"

StepsOfGetFile(t) ==
    \/ GetFileInternal(t)
    \/ KernelScanDataNext(t)
    \/ VisitData(t)
    \/ AfterPull(t)
    \/ GetFileReturn(t)
    \/ BindStore(t)
    \/ Return(t)

\* A call runs to its return before the next call on either list starts.
NoCallRunning == \A t \in Threads : th[t].pc = "idle"

GetFileOfDriver(l, i) == NoCallRunning /\ GetFile(Driver(l), l, i)

BindOfDriver(l) == NoCallRunning /\ Bind(Driver(l), l)

NextTwoLists ==
    \/ \E l \in TwoLists : \E i \in Indices : GetFileOfDriver(l, i)
    \/ \E l \in TwoLists : BindOfDriver(l)
    \/ \E t \in Threads : StepsOfGetFile(t)

SpecTwoLists == Init /\ [][NextTwoLists]_vars

(***************************************************************************)
(* The planner alone: it binds the original list and pushes filters into it *)
(* and into the filtered lists it got back, all recording into the info of  *)
(* one plan node. A call runs to its return before the next one starts.     *)
(***************************************************************************)
Planner == "t1"

\* The list a pushdown is called on and the place its filtered list goes to.
ForkPairs == {<<"orig", "fork">>, <<"fork", "fork2">>}

PushdownOfPlanner(parent, child) ==
    /\ pushdowns < MaxPlanPushdowns
    /\ ComplexFilterPushdown(Planner, parent, child)

StepsOfPushdown(t) ==
    \/ CopyNames(t)
    \/ CopySnapshot(t)
    \/ CountOld(t)
    \/ CountNew(t)
    \/ RecordCounts(t)
    \/ PushdownReturn(t)

StepsOfTotal(t) ==
    \/ GetFileInternal(t)
    \/ KernelScanDataNext(t)
    \/ VisitData(t)
    \/ AfterPull(t)
    \/ TotalLoop(t)
    \/ TotalReturn(t)

NextPlanner ==
    \/ \E pc \in ForkPairs : PushdownOfPlanner(pc[1], pc[2])
    \/ Bind(Planner, "orig")
    \/ BindStore(Planner)
    \/ Return(Planner)
    \/ StepsOfTotal(Planner)
    \/ StepsOfPushdown(Planner)

SpecPlanner == Init /\ [][NextPlanner]_vars

(***************************************************************************)
(* One list and the filtered list one pushdown makes of it, both read       *)
(* before and after the pushdown; a call runs to its return before the next *)
(* one starts.                                                              *)
(***************************************************************************)
ReaderIndices == {0, 1}

GetFileOfReader(l, i) == l \in Alive /\ GetFile(Planner, l, i)

GetTotalFileCountOfReader(l) == l \in Alive /\ GetTotalFileCount(Planner, l)

NextFork ==
    \/ PushdownOfOriginal(Planner)
    \/ \E l \in TwoLists : \E i \in ReaderIndices : GetFileOfReader(l, i)
    \/ \E l \in TwoLists : GetTotalFileCountOfReader(l)
    \/ Bind(Planner, "orig")
    \/ Steps(Planner)
    \/ StepsOfPushdown(Planner)

SpecFork == Init /\ [][NextFork]_vars

(***************************************************************************)
(* Every public operation of a list called by one thread, the pushdown with *)
(* its diagnostic counts among them.                                        *)
(***************************************************************************)
NextLocks ==
    \/ Calls(Planner, "orig")
    \/ GetCardinalityCount(Planner)
    \/ Steps(Planner)
    \/ Pushdown(Planner)

SpecLocks == Init /\ [][NextLocks]_vars

(***************************************************************************)
(* A table that gets commits while a list and its filtered list are opened  *)
(* and read; the commits leave the files of the table as they are.          *)
(***************************************************************************)
Commit ==
    /\ head < SnapshotVersion + MaxCommits
    /\ head' = head + 1
    /\ UNCHANGED <<table, reader, lists, forked, lock, th, ret, forced, opens, pushdowns, info>>

GetVersionOfReader(l) == l \in Alive /\ GetVersion(Planner, l)

NextVersion ==
    \/ Commit
    \/ PushdownOfOriginal(Planner)
    \/ \E l \in TwoLists : GetFileOfReader(l, 0)
    \/ \E l \in TwoLists : GetVersionOfReader(l)
    \/ Bind(Planner, "orig")
    \/ Steps(Planner)
    \/ StepsOfPushdown(Planner)

SpecVersion == Init /\ [][NextVersion]_vars

(***************************************************************************)
(* Engine errors during discovery: kernel_scan_data_next answers an error,  *)
(* or selection_vector_from_dv does while a file is visited; the exception  *)
(* leaves GetFileInternal and its caller, whose lock guard lets go.         *)
(***************************************************************************)
\* Files of a table with row-level deletes: one with a deletion vector, one
\* without.
DeletedFileKinds ==
    { [stats |-> [present |-> TRUE, num_records |-> 2], dv |-> <<TRUE, FALSE>>,
       part |-> [c \in {"region"} |-> "us"]],
      [stats |-> [present |-> FALSE, num_records |-> 0], dv |-> <<>>,
       part |-> [c \in {"region"} |-> "eu"]] }

TablesWithDeletes ==
    UNION {{TableOf(s, k) : k \in [1..SumSeq(s) -> DeletedFileKinds]} : s \in Shapes}

InitAbort ==
    /\ table \in TablesWithDeletes
    /\ InitLists
    /\ reader = NoReader

\* What UnpackResult / TryUnpackKernelResult throw for an error result.
IOException == <<"IOException">>

\* VisitCallback up to the throw of line 76: the path and a new metadata
\* entry are in, with version, file number and row count; the deletion
\* vector and the partition map are not.
VisitCallbackThrown(s, f) ==
    [s EXCEPT !.resolved_files = Append(@, ResolvedPath(f)),
              !.metadata = Append(@, [FileMetaData(s, f) EXCEPT
                                         !.selection_vector = <<>>,
                                         !.partition_map = <<>>])]

\* selection_vector_from_dv fails for the file being visited.
VisitDataThrows(t) ==
    /\ th[t].pc = "visit"
    /\ th[t].batch # <<>>
    /\ Head(th[t].batch).dv # <<>>
    /\ SetList(th[t].l, VisitCallbackThrown(lists[th[t].l], Head(th[t].batch)))
    /\ SetThread(t, [th[t] EXCEPT !.pc = "throw", !.res = IOException, !.batch = <<>>])
    /\ UNCHANGED <<table, head, reader, forked, lock, ret, forced, opens, pushdowns, info>>

\* Mutant: a failed pull is taken for the end of the scan.
FailedPullExhausts(s) == [s EXCEPT !.files_exhausted = TRUE]

\* The list after kernel_scan_data_next answered an error: as before.
FailedPull(s) == s

\* kernel_scan_data_next answers an error: TryUnpackKernelResult throws.
KernelScanDataNextThrows(t) ==
    /\ th[t].pc = "pull"
    /\ SetList(th[t].l, FailedPull(lists[th[t].l]))
    /\ SetThread(t, [th[t] EXCEPT !.pc = "throw", !.res = IOException,
                                  !.pulls = CountPull(th[t])])
    /\ UNCHANGED <<table, head, reader, forked, lock, ret, forced, opens, pushdowns, info>>

\* The exception leaves the public operation: the lock guard is destroyed,
\* nothing is returned.
Unwind(t) ==
    /\ th[t].pc = "throw"
    /\ Release(th[t].l)
    /\ SetThread(t, IdleThread)
    /\ UNCHANGED <<table, head, reader, lists, forked, ret, forced, opens, pushdowns, info>>

NextAbort ==
    \E t \in Threads :
        \/ \E i \in Indices : GetFile(t, "orig", i)
        \/ GetTotalFileCount(t, "orig")
        \/ Bind(t, "orig")
        \/ Steps(t)
        \/ VisitDataThrows(t)
        \/ KernelScanDataNextThrows(t)
        \/ Unwind(t)

SpecAbort == InitAbort /\ [][NextAbort]_vars

(***************************************************************************)
(* DeltaMultiFileReader::FinalizeChunk on one chunk of one file: the rows   *)
(* the file's deletion vector marks as deleted are sliced out of the chunk, *)
(* by the file_row_number column.                                           *)
(***************************************************************************)
\* ffi::KernelBoolSlice of a file: no vector (null pointer), or len flags,
\* true for a row that is kept.
Bitmaps == UNION {[1..n -> BOOLEAN] : n \in 0..MaxDvLen}

KernelBoolSlices ==
    {[ptr |-> FALSE, len |-> 0, bits |-> <<>>]}
        \cup {[ptr |-> TRUE, len |-> Len(b), bits |-> b] : b \in Bitmaps}

\* A chunk: its rows, each with the position it was read at, its
\* file_row_number and its delta_file_number column, not written yet.
ChunkOf(ordinals) ==
    [k \in 1..Len(ordinals) |->
        [pos |-> k - 1, file_row_number |-> ordinals[k], delta_file_number |-> 0]]

\* delta_global_state.delta_file_number_idx: none, or the column's position.
DeltaFileNumberIdxs == {INVALID_INDEX, 1}

\* The dummy expression 0 + file_number of FinalizeChunk.
DummyExpression == 0 + 7

\* A column of the chunk written with one value.
WithFileNumber(chunk, v) == [k \in 1..Len(chunk) |-> [chunk[k] EXCEPT !.delta_file_number = v]]

\* What a column of the chunk holds: a column read from the file, a constant
\* of the file, or nothing that was written.
FileColumn(name) == [kind |-> "file", name |-> name]
ConstantColumn(kind) == [kind |-> "constant", name |-> kind]
UnsetColumn == [kind |-> "unset", name |-> "none"]
NoColumn == [kind |-> "none", name |-> "none"]

\* chunk.data[idx]: the column, or whatever lies behind the vector's end.
ColumnAt(columns, idx) ==
    IF idx # INVALID_INDEX /\ idx < Len(columns)
       THEN columns[idx + 1] ELSE [kind |-> "out_of_range", name |-> "none"]

\* The values row k of the addressed column can give: the row's ordinal when
\* the column is the file's file_row_number, anything otherwise.
RowIds(r, k) ==
    IF r.row_number_column = FileColumn("file_row_number")
       THEN {r.chunk[k].file_row_number} ELSE 0..MaxOrdinal

Chunks == {ChunkOf(o) : o \in UNION {[1..n -> 0..MaxOrdinal] : n \in 0..MaxChunk}}

InitChunk ==
    /\ table = <<>>
    /\ InitLists
    /\ \E dv \in KernelBoolSlices, c \in Chunks, n \in DeltaFileNumberIdxs :
          reader = [pc |-> "chunk", selection_vector |-> dv, input |-> c,
                    delta_file_number_idx |-> n,
                    file_row_number_idx |-> 0,
                    columns |-> <<FileColumn("file_row_number")>>
                                  \o (IF n # INVALID_INDEX
                                         THEN <<ConstantColumn("placeholder")>>
                                         ELSE <<>>),
                    row_number_column |-> NoColumn,
                    chunk |-> c, i |-> 0, sv |-> <<>>, select_count |-> 0,
                    sv_calls |-> 0]

\* Mutant: the deletion vector is applied to every chunk.
NeedsMaskingAlways(dv, chunk) == TRUE

\* metadata.selection_vector.ptr && chunk.size() != 0
NeedsMasking(dv, chunk) == dv.ptr /\ Len(chunk) # 0

\* Mutant: rows beyond the end of the deletion vector are dropped.
KeepRowInsideOnly(dv, row_id) == row_id < dv.len /\ dv.bits[row_id + 1]

\* row_id >= dv.len || dv.ptr[row_id]
KeepRow(dv, row_id) == row_id >= dv.len \/ dv.bits[row_id + 1]

\* chunk.Slice(sv, select_count)
Slice(chunk, sv, select_count) == [k \in 1..select_count |-> chunk[sv[k] + 1]]

\* FinalizeChunk up to the call of DuckSVFromDeltaSV: the base class writes
\* the constants of the file (UBIGINT(0) for delta_file_number), then the
\* deletion vector of the file is looked at.
FinalizeChunk ==
    /\ reader.pc = "chunk"
    /\ LET based == IF reader.delta_file_number_idx # INVALID_INDEX
                       THEN WithFileNumber(reader.chunk, 0) ELSE reader.chunk
       IN  reader' = IF NeedsMasking(reader.selection_vector, based)
                        THEN [reader EXCEPT !.pc = "select", !.i = 0, !.sv = <<>>,
                                            !.sv_calls = @ + 1, !.chunk = based,
                                            !.row_number_column =
                                                ColumnAt(reader.columns,
                                                         reader.file_row_number_idx)]
                        ELSE [reader EXCEPT !.pc = "number", !.chunk = based]
    /\ UNCHANGED listVars

\* One turn of the loop of DuckSVFromDeltaSV.
DuckSVFromDeltaSV ==
    /\ reader.pc = "select"
    /\ reader.i < Len(reader.chunk)
    /\ \E row_id \in RowIds(reader, reader.i + 1) :
           reader' = [reader EXCEPT
                         !.sv = IF KeepRow(reader.selection_vector, row_id)
                                   THEN Append(@, reader.i) ELSE @,
                         !.i = @ + 1]
    /\ UNCHANGED listVars

\* The end of the loop, and the slice of the chunk.
SliceChunk ==
    /\ reader.pc = "select"
    /\ reader.i = Len(reader.chunk)
    /\ reader' = [reader EXCEPT !.pc = "number",
                                !.select_count = Len(reader.sv),
                                !.chunk = Slice(reader.chunk, reader.sv, Len(reader.sv))]
    /\ UNCHANGED listVars

\* The end of FinalizeChunk: the dummy expression is executed into the
\* delta_file_number column.
ExecuteExpression ==
    /\ reader.pc = "number"
    /\ reader' = [reader EXCEPT
                     !.pc = "done",
                     !.chunk = IF reader.delta_file_number_idx # INVALID_INDEX
                                  THEN WithFileNumber(@, DummyExpression) ELSE @]
    /\ UNCHANGED listVars

NextChunk == FinalizeChunk \/ DuckSVFromDeltaSV \/ SliceChunk \/ ExecuteExpression

SpecChunk == InitChunk /\ [][NextChunk]_vars

(***************************************************************************)
(* DeltaMultiFileReader on the columns of one file: InitializeGlobalState   *)
(* places the columns the reader needs, FinalizeBind makes the constants of *)
(* the file, CreateColumnMapping maps what is left to columns of the file.  *)
(***************************************************************************)
\* file_options.custom_options, as far as the reader looks at them.
FileOptions == [file_row_number : BOOLEAN, delta_file_number : BOOLEAN]

\* The global columns: Bind appends file_row_number, BindOptions appends
\* delta_file_number.
GlobalColumns(opts) ==
    Schema
      \o (IF opts.file_row_number
            THEN <<[name |-> "file_row_number", type |-> "BIGINT"]>> ELSE <<>>)
      \o (IF opts.delta_file_number
            THEN <<[name |-> "delta_file_number", type |-> "UBIGINT"]>> ELSE <<>>)

IsRowIdColumnId(col_id) == col_id = COLUMN_IDENTIFIER_ROW_ID

\* The projections of a scan: global column ids, and the row id.
Projections(global_columns) ==
    UNION {[1..k -> (0..(Len(global_columns) - 1)) \cup {COLUMN_IDENTIFIER_ROW_ID}] :
              k \in 0..MaxProjection}

\* StringUtil::Lower on the names in play.
Lower(name) == IF name = "Region" THEN "region" ELSE name

\* Mutant: names are compared as written.
SameNameExact(a, b) == a = b

\* The key comparison of case_insensitive_map_t.
SameName(a, b) == Lower(a) = Lower(b)

\* The columns one data file can offer: id as written or with an older type,
\* or not at all; region in the file, under another spelling, or only in the
\* partition values; the file_row_number column of the file's reader.
LocalColumnSets ==
    {ids \o regions \o rows :
        ids \in {<<>>, <<[name |-> "id", type |-> "BIGINT"]>>,
                 <<[name |-> "id", type |-> "INTEGER"]>>},
        regions \in {<<>>, <<[name |-> "region", type |-> "VARCHAR"]>>,
                     <<[name |-> "Region", type |-> "VARCHAR"]>>},
        rows \in {<<>>, <<[name |-> "file_row_number", type |-> "BIGINT"]>>}}

\* metadata.partition_map of the file: the partition columns and their value.
PartitionMaps ==
    {<<>>, <<[name |-> "region", value |-> "us"]>>, <<[name |-> "region", value |-> "eu"]>>}

InitColumns ==
    /\ table = <<>>
    /\ InitLists
    /\ \E opts \in FileOptions, local \in LocalColumnSets, pm \in PartitionMaps :
         \E ids \in Projections(GlobalColumns(opts)) :
            reader = [pc |-> "global_state",
                      file_options |-> opts,
                      global_columns |-> GlobalColumns(opts),
                      global_column_ids |-> ids,
                      local_columns |-> local,
                      partition_map |-> pm,
                      file_row_number_idx |-> INVALID_INDEX,
                      delta_file_number_idx |-> INVALID_INDEX,
                      extra_columns |-> <<>>,
                      constant_map |-> <<>>,
                      column_mapping |-> <<>>,
                      column_ids |-> <<>>,
                      cast_map |-> {},
                      empty_columns |-> FALSE,
                      i |-> 0]

\* The positions of a sequence of named things that carry a name, 0-based.
PositionsOf(columns, name) ==
    {k \in 0..(Len(columns) - 1) : SameName(columns[k + 1].name, name)}

LeastOf(S) == CHOOSE x \in S : \A y \in S : x <= y

\* selected_columns: the projected, named columns and the first position of each.
SelectedPositions(global_columns, global_column_ids, name) ==
    {i \in 0..(Len(global_column_ids) - 1) :
        /\ ~IsRowIdColumnId(global_column_ids[i + 1])
        /\ SameName(global_columns[global_column_ids[i + 1] + 1].name, name)}

\* columns_to_map, in one of the orders the map may be walked in.
ColumnsToMap(opts) ==
    IF opts.delta_file_number
       THEN {<<[name |-> "file_row_number", type |-> "BIGINT"],
               [name |-> "delta_file_number", type |-> "UBIGINT"]>>,
             <<[name |-> "delta_file_number", type |-> "UBIGINT"],
               [name |-> "file_row_number", type |-> "BIGINT"]>>}
       ELSE {<<[name |-> "file_row_number", type |-> "BIGINT"]>>}

\* Mutant: every extra column gets the first trailing index.
NextOffsetStuck(col_offset) == col_offset

\* col_offset++
NextOffset(col_offset) == col_offset + 1

\* The loop over columns_to_map: where each required column is found, and
\* the extra columns made for those outside the projection.
RECURSIVE MapRequired(_, _, _, _)
MapRequired(required, k, col_offset, r) ==
    IF k > Len(required) THEN <<>>
    ELSE LET sel == SelectedPositions(r.global_columns, r.global_column_ids,
                                      required[k].name)
         IN  IF sel # {}
                THEN <<[name |-> required[k].name, idx |-> LeastOf(sel), extra |-> FALSE,
                        type |-> required[k].type]>>
                        \o MapRequired(required, k + 1, col_offset, r)
                ELSE <<[name |-> required[k].name,
                        idx |-> Len(r.global_column_ids) + col_offset, extra |-> TRUE,
                        type |-> required[k].type]>>
                        \o MapRequired(required, k + 1, NextOffset(col_offset), r)

\* extra_columns: the types of the columns that were not in the projection.
ExtraColumns(mapped) ==
    LET extras == SelectSeq(mapped, LAMBDA m : m.extra)
    IN  [k \in 1..Len(extras) |-> extras[k].type]

\* Mutant: an unknown column is taken for the file number.
SetColumnIdxLenient(gs, column, idx) ==
    IF column = "file_row_number"
       THEN [gs EXCEPT !.file_row_number_idx = idx]
       ELSE [gs EXCEPT !.delta_file_number_idx = idx]

\* DeltaMultiFileReaderGlobalState::SetColumnIdx
SetColumnIdx(gs, column, idx) ==
    IF column = "file_row_number"
       THEN [gs EXCEPT !.file_row_number_idx = idx]
    ELSE IF column = "delta_file_number"
       THEN [gs EXCEPT !.delta_file_number_idx = idx]
    ELSE [gs EXCEPT !.pc = "IOException"]

\* The loop over mapped_columns of InitializeGlobalState.
RECURSIVE SetMappedColumns(_, _, _)
SetMappedColumns(gs, mapped, k) ==
    IF k > Len(mapped) \/ gs.pc = "IOException" THEN gs
    ELSE SetMappedColumns(SetColumnIdx(gs, mapped[k].name, mapped[k].idx), mapped, k + 1)

InitializeGlobalState ==
    /\ reader.pc = "global_state"
    /\ \E required \in ColumnsToMap(reader.file_options) :
         LET mapped == MapRequired(required, 1, 0, reader)
             res == SetMappedColumns([reader EXCEPT !.extra_columns = ExtraColumns(mapped)],
                                     mapped, 1)
         IN  reader' = IF res.pc = "IOException" THEN res
                       ELSE [res EXCEPT !.pc = "finalize_bind"]
    /\ UNCHANGED listVars

\* Value(string).DefaultCastAs(type), Value::BLOB_RAW(string): the value the
\* string stands for in the type.
PartitionValue(text, type) ==
    IF type = "BLOB" THEN [kind |-> "partition", value |-> text, type |-> "BLOB", cast |-> "raw"]
    ELSE [kind |-> "partition", value |-> text, type |-> type, cast |-> "default"]

\* Mutant: no column is taken from the partition values.
HasPartitionValueNever(partition_map, name) == FALSE

\* file_metadata.partition_map.find(name) != end()
HasPartitionValue(partition_map, name) == PositionsOf(partition_map, name) # {}

\* MultiFileReader::FinalizeBind of the base class: the row id is a constant
\* of every file.
RECURSIVE BaseFinalizeBind(_, _)
BaseFinalizeBind(global_column_ids, i) ==
    IF i >= Len(global_column_ids) THEN <<>>
    ELSE (IF IsRowIdColumnId(global_column_ids[i + 1])
             THEN <<[column_id |-> i,
                     value |-> [kind |-> "row_id", value |-> "42", type |-> "BIGINT"]]>>
             ELSE <<>>)
         \o BaseFinalizeBind(global_column_ids, i + 1)

\* The loop of FinalizeBind over the projection: the columns the file has a
\* partition value for.
RECURSIVE PartitionConstants(_, _)
PartitionConstants(r, i) ==
    IF i >= Len(r.global_column_ids) THEN <<>>
    ELSE LET col_id == r.global_column_ids[i + 1]
             name == r.global_columns[col_id + 1].name
             found == PositionsOf(r.partition_map, name)
         IN  (IF ~IsRowIdColumnId(col_id) /\ HasPartitionValue(r.partition_map, name)
                 THEN <<[column_id |-> i,
                         value |-> PartitionValue(r.partition_map[LeastOf(found) + 1].value,
                                                  r.global_columns[col_id + 1].type)]>>
                 ELSE <<>>)
             \o PartitionConstants(r, i + 1)

FinalizeBind ==
    /\ reader.pc = "finalize_bind"
    /\ reader' = [reader EXCEPT
          !.pc = "name_mapping",
          !.i = 0,
          !.constant_map =
              BaseFinalizeBind(reader.global_column_ids, 0)
                \o (IF reader.file_options.delta_file_number
                       THEN <<[column_id |-> reader.delta_file_number_idx,
                               value |-> [kind |-> "placeholder", value |-> "0",
                                          type |-> "UBIGINT"]]>>
                       ELSE <<>>)
                \o (IF reader.partition_map # <<>>
                       THEN PartitionConstants(reader, 0) ELSE <<>>)]
    /\ UNCHANGED listVars

\* Mutant: the constants of the file are not looked at.
IsConstantNever(constant_map, i) == FALSE

\* for (auto &entry : reader_data.constant_map) if (entry.column_id == i)
IsConstant(constant_map, i) ==
    \E k \in 1..Len(constant_map) : constant_map[k].column_id = i

\* name_map: the last column of the file that carries the name.
LocalId(local_columns, name) ==
    CHOOSE k \in PositionsOf(local_columns, name) :
        \A j \in PositionsOf(local_columns, name) : j <= k

\* Mutant: a column the file lacks is an error.
MissingColumnThrows(r, i, global_type) == [r EXCEPT !.pc = "InternalException"]

\* Value val(global_type); reader_data.constant_map.push_back({i, val})
MissingColumn(r, i, global_type) ==
    [r EXCEPT !.i = i + 1,
              !.constant_map =
                  Append(@, [column_id |-> i,
                             value |-> [kind |-> "null", value |-> "NULL",
                                        type |-> global_type]])]

\* One turn of the loop of CustomMulfiFileNameMapping.
CustomMulfiFileNameMapping ==
    /\ reader.pc = "name_mapping"
    /\ reader.i < Len(reader.global_column_ids)
    /\ LET i == reader.i
           global_id == reader.global_column_ids[i + 1]
       IN  IF IsConstant(reader.constant_map, i)
              THEN reader' = [reader EXCEPT !.i = i + 1]
           ELSE IF global_id >= Len(reader.global_columns)
              THEN reader' = [reader EXCEPT !.pc = "InternalException"]
           ELSE LET global_name == reader.global_columns[global_id + 1].name
                    global_type == reader.global_columns[global_id + 1].type
                IN  IF PositionsOf(reader.local_columns, global_name) = {}
                       THEN reader' = MissingColumn(reader, i, global_type)
                       ELSE LET local_id == LocalId(reader.local_columns, global_name)
                                local_type == reader.local_columns[local_id + 1].type
                            IN  reader' = [reader EXCEPT
                                   !.i = i + 1,
                                   !.cast_map = IF global_type # local_type
                                                   THEN @ \cup {<<local_id, global_type>>}
                                                   ELSE @,
                                   !.column_mapping = Append(@, i),
                                   !.column_ids = Append(@, local_id)]
    /\ UNCHANGED listVars

\* Mutant: the file_row_number column is never taken for an extra column.
RowNumberIsExtraNever(r) == FALSE

\* delta_global_state.file_row_number_idx >= global_column_ids.size()
RowNumberIsExtra(r) == r.file_row_number_idx >= Len(r.global_column_ids)

\* Mutant: a file without the column gets a NULL column in its place.
MissingRowNumberDefault(r) ==
    [r EXCEPT !.pc = "done",
              !.constant_map =
                  Append(@, [column_id |-> r.file_row_number_idx,
                             value |-> [kind |-> "null", value |-> "NULL",
                                        type |-> "BIGINT"]]),
              !.empty_columns = r.column_ids = <<>>]

\* throw IOException("Failed to find the file_row_number column")
MissingRowNumber(r) == [r EXCEPT !.pc = "IOException"]

\* The end of CustomMulfiFileNameMapping, and what CreateColumnMapping does
\* after it: the file_row_number column outside the projection.
CreateColumnMapping ==
    /\ reader.pc = "name_mapping"
    /\ reader.i = Len(reader.global_column_ids)
    /\ IF RowNumberIsExtra(reader)
          THEN IF PositionsOf(reader.local_columns, "file_row_number") = {}
                  THEN reader' = MissingRowNumber(
                          [reader EXCEPT !.empty_columns = reader.column_ids = <<>>])
                  ELSE reader' = [reader EXCEPT
                          !.pc = "done",
                          !.column_ids =
                              Append(@, LocalId(reader.local_columns, "file_row_number")),
                          !.column_mapping = Append(@, reader.file_row_number_idx),
                          !.empty_columns = FALSE]
          ELSE reader' = [reader EXCEPT !.pc = "done",
                                        !.empty_columns = reader.column_ids = <<>>]
    /\ UNCHANGED listVars

NextColumns ==
    InitializeGlobalState \/ FinalizeBind \/ CustomMulfiFileNameMapping \/ CreateColumnMapping

SpecColumns == InitColumns /\ [][NextColumns]_vars

(***************************************************************************)
(* The scan of one file after its columns are mapped: the chunks the file's *)
(* reader fills by reader_data.column_ids / column_mapping, the constants   *)
(* written into them, and FinalizeChunk on each.                            *)
(***************************************************************************)
\* The columns of a chunk of the scan: the projection, then extra_columns.
ChunkColumns(r) ==
    [p \in 1..(Len(r.global_column_ids) + Len(r.extra_columns)) |->
        IF \E k \in 1..Len(r.column_mapping) : r.column_mapping[k] = p - 1
           THEN LET k == CHOOSE j \in 1..Len(r.column_mapping) : r.column_mapping[j] = p - 1
                IN  FileColumn(r.local_columns[r.column_ids[k] + 1].name)
        ELSE IF IsConstant(r.constant_map, p - 1)
           THEN LET k == CHOOSE j \in 1..Len(r.constant_map) :
                             r.constant_map[j].column_id = p - 1
                IN  ConstantColumn(r.constant_map[k].value.kind)
        ELSE UnsetColumn]

\* The deletion vectors and the chunks of the scanned file.
ScanVectors == {dv \in KernelBoolSlices : dv.len <= 1}

ScanChunks == {c \in Chunks : Len(c) <= 1}

InitScan ==
    /\ table = <<>>
    /\ InitLists
    /\ \E opts \in FileOptions, local \in LocalColumnSets :
         \E ids \in Projections(GlobalColumns(opts)) :
            reader = [pc |-> "global_state",
                      file_options |-> opts,
                      global_columns |-> GlobalColumns(opts),
                      global_column_ids |-> ids,
                      local_columns |-> local,
                      partition_map |-> <<>>,
                      file_row_number_idx |-> INVALID_INDEX,
                      delta_file_number_idx |-> INVALID_INDEX,
                      extra_columns |-> <<>>,
                      constant_map |-> <<>>,
                      column_mapping |-> <<>>,
                      column_ids |-> <<>>,
                      cast_map |-> {},
                      empty_columns |-> FALSE,
                      i |-> 0,
                      selection_vector |-> [ptr |-> FALSE, len |-> 0, bits |-> <<>>],
                      input |-> <<>>, chunk |-> <<>>,
                      columns |-> <<>>, row_number_column |-> NoColumn,
                      sv |-> <<>>, select_count |-> 0, sv_calls |-> 0]

\* The file's reader fills a chunk, the file's deletion vector is at hand.
ScanChunk ==
    /\ reader.pc = "done"
    /\ reader.sv_calls = 0
    /\ reader.columns = <<>>
    /\ \E dv \in ScanVectors, c \in ScanChunks :
          reader' = [reader EXCEPT !.pc = "chunk",
                                   !.selection_vector = dv,
                                   !.input = c, !.chunk = c,
                                   !.columns = ChunkColumns(reader)]
    /\ UNCHANGED listVars

NextScan == NextColumns \/ ScanChunk \/ NextChunk

SpecScan == InitScan /\ [][NextScan]_vars

(***************************************************************************)
(* DeltaMultiFileReaderGlobalState::SetColumnIdx called with any name and   *)
(* index on a state as constructed, up to MaxMapped times.                  *)
(***************************************************************************)
RequiredNames == {"file_row_number", "delta_file_number", "filename"}

ColumnIdxs == 0..(MaxProjection + 1)

InitSetColumnIdx ==
    /\ table = <<>>
    /\ InitLists
    /\ reader = [pc |-> "set_column_idx",
                 file_row_number_idx |-> INVALID_INDEX,
                 delta_file_number_idx |-> INVALID_INDEX,
                 calls |-> 0, column |-> "none", idx |-> 0,
                 before |-> [file_row_number_idx |-> INVALID_INDEX,
                             delta_file_number_idx |-> INVALID_INDEX]]

SetColumnIdxCall ==
    /\ reader.pc = "set_column_idx"
    /\ reader.calls < MaxMapped
    /\ \E column \in RequiredNames, idx \in ColumnIdxs :
          reader' = SetColumnIdx([reader EXCEPT
                                     !.calls = @ + 1, !.column = column, !.idx = idx,
                                     !.before = [file_row_number_idx |-> reader.file_row_number_idx,
                                                 delta_file_number_idx |-> reader.delta_file_number_idx]],
                                 column, idx)
    /\ UNCHANGED listVars

NextSetColumnIdx == SetColumnIdxCall

SpecSetColumnIdx == InitSetColumnIdx /\ [][NextSetColumnIdx]_vars

(***************************************************************************)
(* What the claims speak of.                                                *)
(***************************************************************************)
PathsOf(fs) == [k \in 1..Len(fs) |-> ResolvedPath(fs[k])]

\* Every file the scan of list s yields, in the order it yields them.
YieldedFiles(s) == Flatten(ScanBatches(s))

\* The files in the first k batches of the scan of list s.
FilesOfBatches(s, k) == Flatten(SubSeq(ScanBatches(s), 1, k))

\* The files of the batches the iterator of list s has handed out so far.
Consumed(s) == FilesOfBatches(s, s.scan_pos)

\* The largest index a returned GetFile call has asked of list l, or -1.
MaxRequested(l) ==
    LET R == {i \in Indices : ret[l][i] # NoCall}
    IN  IF R = {} THEN -1 ELSE CHOOSE m \in R : \A x \in R : x <= m

\* The fewest pulls after which file m is there (all batches when it never is).
NeededPulls(s, m) ==
    LET K == {k \in 0..Len(table) : Len(FilesOfBatches(s, k)) > m}
    IN  IF m < 0 THEN 0
        ELSE IF K = {} THEN Len(table)
        ELSE CHOOSE k \in K : \A x \in K : k <= x

Min(a, b) == IF a <= b THEN a ELSE b

\* Thread t is at the return of a GetFile call, the path in th[t].res.
GetFileDone(t) == th[t].pc = "gfi_ret" /\ th[t].op = "GetFile"

\* No thread is inside an operation on list l.
Quiet(l) == lock[l] = NoThread

\* C1: a GetFile(i) call made after a GetFile(i) call has returned gives the
\* path the first one gave, and makes no pull of the scan iterator.
C1_GetFileIdempotent ==
    \A t \in Threads :
        (GetFileDone(t) /\ th[t].again) =>
            /\ th[t].res = ret[th[t].l][th[t].i]
            /\ th[t].pulls = 0

\* C1 witness: a repeated GetFile(i) returns a file's path, with a GetFile of
\* another index having returned in between or before.
C1_RepeatedCall ==
    \E t \in Threads :
        /\ GetFileDone(t) /\ th[t].again
        /\ th[t].res # EmptyPath
        /\ \E j \in Indices : j # th[t].i /\ ret[th[t].l][j] # NoCall

\* C2: once a GetFile(i) has returned the empty path, a later GetFile(j) with
\* j >= i returns the empty path and makes no pull of the scan iterator.
C2_ExhaustionStable ==
    \A t \in Threads :
        (GetFileDone(t) /\ th[t].wasEmpty) =>
            /\ th[t].res = EmptyPath
            /\ th[t].pulls = 0

\* C2 witness: a GetFile(j) returns after a GetFile(i) with i < j gave the
\* empty path, in a table that has files.
C2_LaterCallAfterEmpty ==
    \E t \in Threads :
        /\ GetFileDone(t) /\ th[t].wasEmpty
        /\ \E i \in Indices : i < th[t].i /\ ret[th[t].l][i] = EmptyPath
        /\ lists[th[t].l].resolved_files # <<>>

\* C3 as claimed: after GetFile calls alone, the materialized ordinals are
\* exactly [0, max(i)+1), cut at the end of the table.
C3_ExactPrefix ==
    \A l \in Lists :
        (Quiet(l) /\ ~forced[l]) =>
            Len(lists[l].resolved_files)
                = Min(MaxRequested(l) + 1, Len(YieldedFiles(lists[l])))

\* C3 as amended: after GetFile calls alone, the list holds exactly the files
\* of the fewest leading batches of the scan that bring file max(i), in the
\* scan's order (all batches, and the exhausted flag, when the table ends at
\* or before max(i)); nothing is pulled beyond those batches.
C3_PrefixOfWholeBatches ==
    \A l \in Lists :
        (Quiet(l) /\ ~forced[l]) =>
            LET s == lists[l]
                m == MaxRequested(l)
                n == NeededPulls(s, m)
            IN  /\ s.scan_pos = n
                /\ s.resolved_files = PathsOf(FilesOfBatches(s, n))
                /\ s.files_exhausted <=> (m >= 0 /\ Len(YieldedFiles(s)) <= m)

\* C3 witness: GetFile(0) alone has returned, and the list holds the two
\* files of the first batch, the scan not being exhausted.
C3_BatchBringsMore ==
    /\ Quiet("orig") /\ ~forced["orig"]
    /\ MaxRequested("orig") = 0
    /\ Len(lists["orig"].resolved_files) = 2
    /\ ~lists["orig"].files_exhausted

\* C4: two lists over the same snapshot and predicate, whatever the order and
\* interleaving of the calls on each, hold at every ordinal both have
\* materialized the same path and the same metadata (row count, deletion
\* vector, partition map, file number).
C4_OrderIndependent ==
    \A k \in 1..Min(Len(lists["orig"].metadata), Len(lists["fork"].metadata)) :
        /\ lists["orig"].resolved_files[k] = lists["fork"].resolved_files[k]
        /\ lists["orig"].metadata[k] = lists["fork"].metadata[k]

\* C4: both lists have returned the same file to GetFile(0), one holding the
\* file's partition values and the other none.
C4_SameFileOtherPartitionMap ==
    /\ ret["orig"][0] # NoCall /\ ret["orig"][0] # EmptyPath
    /\ ret["fork"][0] = ret["orig"][0]
    /\ lists["orig"].metadata[1].partition_map # <<>>
    /\ lists["fork"].metadata[1].partition_map = <<>>

\* The store of each list: as many metadata as paths, the k-th carrying file
\* number k, in the order the scan yields the files.
StoreInScanOrder ==
    \A l \in Lists :
        LET s == lists[l]
        IN  /\ Len(s.resolved_files) = Len(s.metadata)
            /\ Len(s.resolved_files) <= Len(Consumed(s))
            /\ \A k \in 1..Len(s.metadata) :
                  /\ s.metadata[k].file_number = k - 1
                  /\ s.resolved_files[k] = ResolvedPath(Consumed(s)[k])

\* No step changes or removes an entry that is in a store.
EntriesKept ==
    \A l \in Lists :
        \A k \in 1..Len(lists[l].resolved_files) :
            /\ k <= Len(lists'[l].resolved_files)
            /\ k <= Len(lists'[l].metadata)
            /\ lists'[l].resolved_files[k] = lists[l].resolved_files[k]
            /\ lists'[l].metadata[k] = lists[l].metadata[k]

\* C5: the store is append-only and gap-free: paths and metadata have the
\* same length, the entry at position k carries file number k, the entries
\* are in the order the scan yields them, and no step changes, removes or
\* moves an entry once it is there.
C5_AppendOnlyGapFree == [](StoreInScanOrder) /\ [][EntriesKept]_vars

\* C5 witness: a file is appended behind an entry that is already there.
C5_SecondEntryAppended ==
    \E t \in Threads :
        /\ th[t].pc = "visit"
        /\ Len(lists[th[t].l].resolved_files) >= 2

DiscoveryPcs == {"pull", "visit", "pulled"}

\* C6: at most one thread is in the discovery loop of a list (pulling the
\* scan iterator, or inside the visitor appending to the store).
C6_SerializedDiscovery ==
    \A l \in Lists :
        Cardinality({t \in Threads : th[t].pc \in DiscoveryPcs /\ th[t].l = l}) <= 1

\* C6 witness: a thread holding the lock is inside the visitor, with a file
\* to append, in a pull after the first.
C6_PullInProgress ==
    \E t \in Threads :
        /\ th[t].pc = "visit" /\ th[t].batch # <<>>
        /\ lists[th[t].l].scan_pos >= 2
        /\ lock[th[t].l] = t

\* The files the visitor still has to see of the batch being visited.
Pending(l) ==
    LET V == {t \in Threads : th[t].pc = "visit" /\ th[t].l = l}
    IN  IF V = {} THEN <<>> ELSE th[CHOOSE t \in V : TRUE].batch

\* C7: every file the scan iterator has handed to the visitor is in the list
\* exactly once, in order (none twice, none lost), and the scan iterator is
\* created at most once per list.
C7_MaterializedOnce ==
    \A l \in Lists :
        /\ lists[l].scan_inits <= 1
        /\ lists[l].resolved_files \o PathsOf(Pending(l)) = PathsOf(Consumed(lists[l]))
        /\ \A j, k \in 1..Len(lists[l].resolved_files) :
              lists[l].resolved_files[j] = lists[l].resolved_files[k] => j = k

\* C7 witness: two pulls have brought files and calls of several indices have
\* returned.
C7_SeveralPullsDone ==
    /\ Quiet("orig")
    /\ lists["orig"].scan_pos >= 2
    /\ Len(lists["orig"].resolved_files) >= 2
    /\ Cardinality({i \in Indices : ret["orig"][i] # NoCall}) >= 2

\* The positions from which a thread's next step reads the bound names of
\* the list without having taken its lock.
UnlockedNameReads == {"cfp_names", "cfp_record"}

\* C8: no operation reads a shared field of the list outside the list's lock
\* while another thread is writing it: here the bound names, which Bind
\* stores under the lock.
C8_NoUnlockedAccess ==
    \A a, b \in Threads :
        (/\ a # b
         /\ th[a].pc = "bind_store" /\ th[a].l = "orig"
         /\ th[b].pc \in UnlockedNameReads) =>
            lock["orig"] = b

\* C9: GetTotalFileCount and GetAllFiles return the number, or the sequence,
\* of all the files the scan of the list yields, and leave the list marked
\* exhausted.
C9_TotalIsFullExpansion ==
    \A t \in Threads :
        th[t].pc = "total_ret" =>
            LET s == lists[th[t].l]
            IN  /\ s.files_exhausted
                /\ s.resolved_files = PathsOf(YieldedFiles(s))
                /\ th[t].op = "GetAllFiles" => th[t].res = PathsOf(YieldedFiles(s))
                /\ th[t].op # "GetAllFiles" => th[t].res = Len(YieldedFiles(s))

\* C9 witness: GetTotalFileCount returns 2 on a list in which GetFile(0) had
\* materialized only the first of two batches.
C9_CountFromPrefix ==
    \E t \in Threads :
        /\ th[t].pc = "total_ret" /\ th[t].op = "GetTotalFileCount"
        /\ th[t].res = 2
        /\ Len(table) = 2 /\ Len(table[1]) = 1
        /\ ret[th[t].l][0] # NoCall
        /\ \A i \in Indices \ {0} : ret[th[t].l][i] = NoCall

NoFileHasStats(s) == \A k \in 1..Len(YieldedFiles(s)) : ~YieldedFiles(s)[k].stats.present

\* C10 as claimed: GetCardinality returns no statistics for every list in
\* which no file carries a row count.
C10_UnknownWithoutStats ==
    \A t \in Threads :
        th[t].pc = "card_ret" =>
            (NoFileHasStats(lists[th[t].l]) => th[t].res = NoStatistics)

\* C10 as amended: GetCardinality returns no statistics for every list that
\* has at least one file and in which no file carries a row count; for a list
\* without files it returns the statistics (0, 0).
C10_UnknownWithoutStatsUnlessEmpty ==
    \A t \in Threads :
        th[t].pc = "card_ret" =>
            LET s == lists[th[t].l]
            IN  /\ (NoFileHasStats(s) /\ YieldedFiles(s) # <<>>) => th[t].res = NoStatistics
                /\ YieldedFiles(s) = <<>> => th[t].res = NodeStatistics(0, 0)

\* C10 witness: GetCardinality answers "unknown" for a list of two files.
C10_UnknownReturned ==
    \E t \in Threads :
        /\ th[t].pc = "card_ret"
        /\ th[t].res = NoStatistics
        /\ Len(lists[th[t].l].resolved_files) = 2

\* The row counts the log gives for the files of list s that carry one.
RowCounts(s) ==
    LET fs == SelectSeq(YieldedFiles(s), LAMBDA f : f.stats.present)
    IN  [k \in 1..Len(fs) |-> fs[k].stats.num_records]

\* C11: when at least one file of the list carries a row count,
\* GetCardinality returns a statistics object whose estimated and maximum
\* cardinality are both the sum of the row counts of all the files of the
\* fully expanded list.
C11_CardinalityIsSum ==
    \A t \in Threads :
        (th[t].pc = "card_ret" /\ RowCounts(lists[th[t].l]) # <<>>) =>
            /\ th[t].res.has_stats
            /\ th[t].res.estimated_cardinality = SumSeq(RowCounts(lists[th[t].l]))
            /\ th[t].res.max_cardinality = SumSeq(RowCounts(lists[th[t].l]))
            /\ lists[th[t].l].resolved_files = PathsOf(YieldedFiles(lists[th[t].l]))

\* C11 witness: GetCardinality returns the sum over two files, one of them
\* without a row count, on a list a GetFile call had expanded in part.
C11_SumOverMixedFiles ==
    \E t \in Threads :
        /\ th[t].pc = "card_ret"
        /\ Len(RowCounts(lists[th[t].l])) = 1
        /\ Len(YieldedFiles(lists[th[t].l])) = 2
        /\ th[t].res.estimated_cardinality = 2
        /\ ret[th[t].l][0] # NoCall

InPushdown(t) == th[t].op = "ComplexFilterPushdown"

\* What of a list discovery fills and moves: the store, the cursor, the flags.
StoreOf(s) ==
    <<s.resolved_files, s.metadata, s.scan_pos, s.scan_inits,
      s.initialized_scan, s.files_exhausted>>

\* C12: ComplexFilterPushdown with an empty predicate list returns no fork
\* (the null pointer), and no step of the call changes any list, opens a
\* snapshot or a scan, discovers a file or records a count.
C12_EmptyPushdownReturnsNothing ==
    /\ [](\A t \in Threads :
            (InPushdown(t) /\ th[t].filters = "empty") =>
                th[t].pc = "cfp_ret" /\ th[t].res = "nullptr")
    /\ [][\A t \in Threads :
            (\/ InPushdown(t) /\ th[t].filters = "empty"
             \/ th'[t].op = "ComplexFilterPushdown" /\ th'[t].filters = "empty") =>
                /\ lists' = lists
                /\ forked' = forked
                /\ opens' = opens
                /\ info' = info
                /\ lock' = lock]_vars

\* C12 witness: a pushdown with no predicates returns, with profiling on, on
\* an original list that is bound and expanded in part.
C12_EmptyPushdownOnExpandedList ==
    \E t \in Threads :
        /\ th[t].pc = "cfp_ret" /\ th[t].filters = "empty"
        /\ th[t].profiler /\ th[t].setting
        /\ lists["orig"].have_bound
        /\ Len(lists["orig"].resolved_files) = 1
        /\ ~lists["orig"].files_exhausted

\* C13: a filtered list holds the snapshot handle of the list it was made
\* from, and the snapshot is opened at most once for the two of them,
\* whatever state the parent was in at the pushdown.
C13_SnapshotOpenedOnce ==
    /\ opens <= 1
    /\ \A c \in forked :
          (lists[c].snapshot # NoSnapshot /\ lists["orig"].snapshot # NoSnapshot) =>
              lists[c].snapshot = lists["orig"].snapshot

\* C13: made from a parent that had opened its snapshot, the filtered list is
\* read to its end on the parent's handle.
C13_HandleSharedWhenParentOpen ==
    /\ "fork" \in forked
    /\ lists["fork"].files_exhausted
    /\ lists["fork"].snapshot = lists["orig"].snapshot
    /\ opens = 1

\* C14: a filtered list starts with an empty store, no scan and a cleared
\* exhausted flag however far its parent is expanded; afterwards a step
\* changes the store, cursor or flags of a list only inside an operation
\* called on that very list (or when a pushdown makes or, thrown out of,
\* drops it), and each list holds the files of its own scan.
C14_ForkIndependent ==
    /\ [](\A t \in Threads :
            th[t].pc = "cfp_names" =>
                StoreOf(lists[th[t].child]) = <<<<>>, <<>>, 0, 0, FALSE, FALSE>>)
    /\ [](\A l \in Lists :
            lists[l].resolved_files \o PathsOf(Pending(l)) = PathsOf(Consumed(lists[l])))
    /\ [][\A l \in Lists :
            StoreOf(lists'[l]) # StoreOf(lists[l]) =>
                \/ \E t \in Threads : lock[l] = t /\ th[t].l = l
                \/ \E t \in Threads : th[t].pc = "idle" /\ th'[t].pc = "cfp_names"
                                         /\ th'[t].child = l
                \/ \E t \in Threads : th[t].pc = "cfp_ret" /\ th[t].child = l
                                         /\ th[t].res = "InternalException"]_vars

\* C14 witness: the parent is expanded to its end with two files, and the
\* filtered list made after that has been read to its own end with one.
C14_BothExpandedApart ==
    /\ "fork" \in forked
    /\ \A t \in Threads : th[t].pc = "idle"
    /\ lists["orig"].files_exhausted /\ Len(lists["orig"].resolved_files) = 2
    /\ lists["fork"].files_exhausted /\ Len(lists["fork"].resolved_files) = 1
    /\ ret["fork"][0] # NoCall

\* C15: the filtered list a pushdown makes has at most as many files as the
\* list the pushdown was called on, be that an original or a filtered list.
C15_ForkNotLarger ==
    \A t \in Threads :
        th[t].pc = "cfp_record" => th[t].new_total <= th[t].old_total

\* C15: pushed into the original list, a filter leaves fewer files.
C15_ForkOfOriginalSmaller ==
    \E t \in Threads :
        /\ th[t].pc = "cfp_record" /\ th[t].parent = "orig"
        /\ th[t].new_total < th[t].old_total

\* C16: a diagnostic pushdown whose total count is above the total recorded
\* in the plan node's info by an earlier call, or whose filtered count is
\* above the recorded filtered count, ends in an internal error, leaves both
\* recorded counts as they were and returns no list; any other diagnostic
\* pushdown records its filtered count and keeps or sets the total.
C16_InconsistentCountsAbort ==
    [][\A t \in Threads :
        th[t].pc = "cfp_record" =>
            LET mismatch ==
                    \/ info.total_files # INVALID_INDEX
                          /\ th[t].old_total > info.total_files
                    \/ info.filtered_files # INVALID_INDEX
                          /\ th[t].new_total > info.filtered_files
            IN  IF mismatch
                   THEN /\ th'[t].res = "InternalException"
                        /\ info'.total_files = info.total_files
                        /\ info'.filtered_files = info.filtered_files
                   ELSE /\ th'[t].res = "fork"
                        /\ info'.filtered_files = th[t].new_total
                        /\ info'.total_files =
                              IF info.total_files = INVALID_INDEX
                                 THEN th[t].old_total ELSE info.total_files]_vars

\* C16 witness: a second diagnostic pushdown has ended in the internal error
\* with the counts of the first still in the info.
C16_SecondPushdownAborted ==
    \E t \in Threads :
        /\ th[t].pc = "cfp_ret" /\ th[t].res = "InternalException"
        /\ info.total_files # INVALID_INDEX
        /\ info.filtered_files # INVALID_INDEX
        /\ th[t].new_total > info.filtered_files

\* C17: with the profiler off or the delta_scan_explain_files_filtered
\* setting false, ComplexFilterPushdown runs no GetTotalFileCount, makes no
\* pull on either list and records nothing; with both on, the counts are
\* recorded with the parent and the filtered list both expanded to the end.
C17_DiagnosticsGated ==
    /\ [](\A t \in Threads :
            (InPushdown(t) /\ ~(th[t].profiler /\ th[t].setting)) =>
                th[t].pc \in {"cfp_names", "cfp_snapshot", "cfp_ret"})
    /\ [](\A t \in Threads :
            th[t].pc = "cfp_record" =>
                /\ th[t].profiler /\ th[t].setting
                /\ lists[th[t].parent].files_exhausted
                /\ lists[th[t].child].files_exhausted)
    /\ [][\A t \in Threads :
            (InPushdown(t) /\ ~(th[t].profiler /\ th[t].setting)) =>
                /\ info' = info
                /\ opens' = opens
                /\ \A l \in Lists : StoreOf(lists'[l]) = StoreOf(lists[l])]_vars

\* C17 witness: a pushdown with the profiler on and the setting off returns
\* the filtered list, nothing discovered in either list.
C17_PushdownWithoutCounts ==
    \E t \in Threads :
        /\ th[t].pc = "cfp_ret" /\ th[t].res = "fork"
        /\ th[t].profiler /\ ~th[t].setting
        /\ lists["orig"].resolved_files = <<>>
        /\ lists[th[t].child].resolved_files = <<>>
        /\ Len(YieldedFiles(lists["orig"])) = 2

\* The rows of a chunk in their order: where each was read, and its ordinal.
RowsOf(chunk) == [k \in 1..Len(chunk) |-> <<chunk[k].pos, chunk[k].file_row_number>>]

\* The positions of the chunk read whose row the deletion vector keeps.
KeptPositions ==
    {p \in 0..(Len(reader.input) - 1) :
        LET o == reader.input[p + 1].file_row_number
        IN  o >= reader.selection_vector.len \/ reader.selection_vector.bits[o + 1]}

\* C18: the selection vector DuckSVFromDeltaSV builds holds exactly the
\* positions of the batch whose row ordinal is at or beyond the length of the
\* deletion vector or is marked "keep" in it, in increasing order, the count
\* it reports is the number of these positions, and the sliced chunk holds
\* these rows in their order.
C18_SelectionVectorExact ==
    (reader.pc = "done" /\ reader.sv_calls > 0) =>
        /\ \A j, k \in 1..Len(reader.sv) : j < k => reader.sv[j] < reader.sv[k]
        /\ Range(reader.sv) = KeptPositions
        /\ reader.select_count = Cardinality(KeptPositions)
        /\ Len(reader.chunk) = reader.select_count
        /\ \A k \in 1..Len(reader.chunk) :
              RowsOf(reader.chunk)[k] = RowsOf(reader.input)[reader.sv[k] + 1]

\* C18 witness: a chunk of three rows, one ordinal marked deleted, one marked
\* kept and one beyond the deletion vector, has been sliced to two rows.
C18_MixedBatchSliced ==
    /\ reader.pc = "done" /\ reader.sv_calls > 0
    /\ Len(reader.input) = 3 /\ reader.select_count = 2
    /\ \E p \in 1..3 : reader.input[p].file_row_number >= reader.selection_vector.len
    /\ \E p \in 1..3 :
          /\ reader.input[p].file_row_number < reader.selection_vector.len
          /\ reader.selection_vector.bits[reader.input[p].file_row_number + 1]

\* C19: for a file without a deletion vector, and for an empty chunk,
\* FinalizeChunk does not call the selection vector builder and leaves the
\* rows of the chunk and their order as they were.
C19_PassThrough ==
    (reader.pc # "chunk" /\ (~reader.selection_vector.ptr \/ reader.input = <<>>)) =>
        /\ reader.pc \in {"number", "done"}
        /\ reader.sv_calls = 0
        /\ RowsOf(reader.chunk) = RowsOf(reader.input)

\* C19 witness: a chunk of three rows of a file without deletion vector has
\* been finalized.
C19_ChunkWithoutVectorDone ==
    /\ reader.pc = "done"
    /\ ~reader.selection_vector.ptr
    /\ Len(reader.chunk) = 3

\* How often a position is resolved: as a constant, and as a column of the file.
ConstantsAt(i) ==
    Cardinality({k \in 1..Len(reader.constant_map) : reader.constant_map[k].column_id = i})

MappingsAt(i) ==
    Cardinality({k \in 1..Len(reader.column_mapping) : reader.column_mapping[k] = i})

\* C20: when FinalizeBind and CreateColumnMapping have run for a file, every
\* position of the projection is resolved exactly once, as a constant of the
\* file or as a column read from the file, and before that no position is
\* resolved twice; a column read from the file is a column the file has.
C20_EveryPositionResolvedOnce ==
    reader.pc \in {"name_mapping", "done", "IOException"} =>
        /\ \A i \in 0..(Len(reader.global_column_ids) - 1) :
              /\ ConstantsAt(i) + MappingsAt(i) <= 1
              /\ (i < reader.i \/ reader.pc = "done") => ConstantsAt(i) + MappingsAt(i) = 1
        /\ Len(reader.column_ids) = Len(reader.column_mapping)
        /\ \A k \in 1..Len(reader.column_ids) :
              reader.column_ids[k] \in 0..(Len(reader.local_columns) - 1)

\* C20 witness: a projection of three positions is done with one partition
\* constant, one null default and one column read with a cast.
C20_ThreeKindsResolved ==
    /\ reader.pc = "done"
    /\ Len(reader.global_column_ids) = 3
    /\ \E k \in 1..Len(reader.constant_map) : reader.constant_map[k].value.kind = "partition"
    /\ \E k \in 1..Len(reader.constant_map) : reader.constant_map[k].value.kind = "null"
    /\ reader.cast_map # {}

\* The global column a position of the projection stands for.
GlobalOf(i) == reader.global_columns[reader.global_column_ids[i + 1] + 1]

ConstantsOf(i) ==
    {reader.constant_map[k].value : k \in {j \in 1..Len(reader.constant_map) :
                                              reader.constant_map[j].column_id = i}}

\* The positions of the projection that name a partition column of the file.
PartitionPositions ==
    {i \in 0..(Len(reader.global_column_ids) - 1) :
        /\ reader.global_column_ids[i + 1] # COLUMN_IDENTIFIER_ROW_ID
        /\ \E k \in 1..Len(reader.partition_map) :
              Lower(reader.partition_map[k].name) = Lower(GlobalOf(i).name)}

AfterFinalizeBind == reader.pc \in {"name_mapping", "done", "IOException", "InternalException"}

\* C21: after FinalizeBind, every projected column other than the row id
\* whose name is, case-insensitively, a key of the file's partition map has
\* exactly one constant, the file's partition value in the column's type, and
\* is never mapped to a column of the file, whether the file has a column of
\* that name or not.
C21_PartitionColumnsAreConstants ==
    AfterFinalizeBind =>
        \A i \in PartitionPositions :
            /\ MappingsAt(i) = 0
            /\ ConstantsAt(i) = 1
            /\ \A c \in ConstantsOf(i) :
                  /\ c.kind = "partition"
                  /\ c.type = GlobalOf(i).type
                  /\ \E k \in 1..Len(reader.partition_map) : c.value = reader.partition_map[k].value

\* C21 witness: region is projected, the file has a region column and a
\* partition value for region, and the mapping is done.
C21_PartitionColumnAlsoInFile ==
    /\ reader.pc = "done"
    /\ PartitionPositions # {}
    /\ \E k \in 1..Len(reader.local_columns) : Lower(reader.local_columns[k].name) = "region"
    /\ \E k \in 1..Len(reader.local_columns) : reader.local_columns[k].name = "id"
    /\ reader.column_ids # <<>>

\* The positions of the projection whose column the file lacks: not the row
\* id, not a partition column of the file, not the delta_file_number
\* placeholder, and no column of the file with that name in any spelling.
DriftedPositions ==
    {i \in 0..(Len(reader.global_column_ids) - 1) :
        /\ reader.global_column_ids[i + 1] # COLUMN_IDENTIFIER_ROW_ID
        /\ i \notin PartitionPositions
        /\ ~(reader.file_options.delta_file_number /\ reader.delta_file_number_idx = i)
        /\ \A k \in 1..Len(reader.local_columns) :
              Lower(reader.local_columns[k].name) # Lower(GlobalOf(i).name)}

FileHasRowNumber ==
    \E k \in 1..Len(reader.local_columns) :
        Lower(reader.local_columns[k].name) = "file_row_number"

\* C22 as stated: with a projected column the file lacks, column mapping
\* completes without raising.
C22_DriftNeverRaises ==
    (AfterFinalizeBind /\ DriftedPositions # {}) =>
        reader.pc \notin {"IOException", "InternalException"}

\* C22: a projected column the file lacks gets, when the name mapping reaches
\* it, one NULL constant of the global type and no mapping, and the name
\* mapping raises nothing; column mapping as a whole raises only the
\* IOException for a file_row_number column that is needed outside the
\* projection and is not in the file.
C22_DriftGivesNull ==
    AfterFinalizeBind =>
        /\ reader.pc # "InternalException"
        /\ \A i \in DriftedPositions :
              (i < reader.i) =>
                  /\ MappingsAt(i) = 0
                  /\ ConstantsOf(i) = {[kind |-> "null", value |-> "NULL",
                                        type |-> GlobalOf(i).type]}
        /\ reader.pc = "IOException" =>
              /\ reader.file_row_number_idx >= Len(reader.global_column_ids)
              /\ ~FileHasRowNumber

\* C22 witness: the file lacks the projected column id, which got its NULL
\* constant, and the mapping is done.
C22_MissingIdDone ==
    /\ reader.pc = "done"
    /\ \E i \in DriftedPositions : GlobalOf(i).name = "id"
    /\ reader.column_mapping # <<>>

\* The columns the reader needs, and the index each got.
RequiredOf(opts) ==
    {"file_row_number"} \cup (IF opts.delta_file_number THEN {"delta_file_number"} ELSE {})

IndexOf(name) ==
    IF name = "file_row_number" THEN reader.file_row_number_idx
    ELSE reader.delta_file_number_idx

TypeOf(name) == IF name = "file_row_number" THEN "BIGINT" ELSE "UBIGINT"

ProjectedAt(name) ==
    {i \in 0..(Len(reader.global_column_ids) - 1) :
        /\ reader.global_column_ids[i + 1] # COLUMN_IDENTIFIER_ROW_ID
        /\ GlobalOf(i).name = name}

TrailingNames ==
    {n \in RequiredOf(reader.file_options) : IndexOf(n) >= Len(reader.global_column_ids)}

\* C23: after InitializeGlobalState every required column (file_row_number,
\* and delta_file_number when enabled) has the index of a projection position
\* where it appears, or, when it appears nowhere, a trailing index; the
\* trailing indices are distinct and run from the size of the projection
\* without a gap, and extra_columns holds the type of each trailing column at
\* its place; a column that is not required has no index.
C23_SyntheticIndexAllocation ==
    reader.pc \in {"finalize_bind", "name_mapping", "done", "IOException"} =>
        LET n == Len(reader.global_column_ids)
        IN  /\ \A name \in RequiredOf(reader.file_options) :
                  IF ProjectedAt(name) # {}
                     THEN IndexOf(name) \in ProjectedAt(name)
                     ELSE IndexOf(name) >= n
            /\ {IndexOf(name) : name \in TrailingNames}
                   = n..(n + Cardinality(TrailingNames) - 1)
            /\ Len(reader.extra_columns) = Cardinality(TrailingNames)
            /\ \A name \in TrailingNames :
                  reader.extra_columns[IndexOf(name) - n + 1] = TypeOf(name)
            /\ ~reader.file_options.delta_file_number =>
                  reader.delta_file_number_idx = INVALID_INDEX

\* C23 witness: both synthetic columns are required and neither is projected.
C23_TwoTrailingColumns ==
    /\ reader.pc = "finalize_bind"
    /\ Cardinality(TrailingNames) = 2
    /\ Len(reader.global_column_ids) = 2

\* C24: SetColumnIdx with a name other than file_row_number and
\* delta_file_number ends in an IOException and changes no index; with one of
\* the two names it sets that column's index to the value given, leaves the
\* other index as it was and raises nothing.
C24_SetColumnIdxByName ==
    (reader.pc \in {"set_column_idx", "IOException"} /\ reader.calls > 0) =>
        /\ reader.column = "file_row_number" =>
              /\ reader.pc = "set_column_idx"
              /\ reader.file_row_number_idx = reader.idx
              /\ reader.delta_file_number_idx = reader.before.delta_file_number_idx
        /\ reader.column = "delta_file_number" =>
              /\ reader.pc = "set_column_idx"
              /\ reader.delta_file_number_idx = reader.idx
              /\ reader.file_row_number_idx = reader.before.file_row_number_idx
        /\ reader.column \notin {"file_row_number", "delta_file_number"} =>
              /\ reader.pc = "IOException"
              /\ reader.file_row_number_idx = reader.before.file_row_number_idx
              /\ reader.delta_file_number_idx = reader.before.delta_file_number_idx

\* C24 witness: an unknown name was rejected after file_row_number had got
\* its index.
C24_UnknownNameRejected ==
    /\ reader.pc = "IOException"
    /\ reader.calls = 2
    /\ reader.column = "filename"
    /\ reader.file_row_number_idx # INVALID_INDEX

\* The file of the table a resolved path stands for.
FileOfPath(path) ==
    LET all == Flatten(table)
    IN  all[CHOOSE k \in 1..Len(all) : ResolvedPath(all[k]) = path]

\* A complete entry: what VisitCallback writes for the file when it runs to
\* its end, with the names bound or not bound at that time.
CompleteEntry(s, k) ==
    LET f == FileOfPath(s.resolved_files[k])
        before == [s EXCEPT !.resolved_files = SubSeq(@, 1, k - 1)]
    IN  \E names \in {<<>>, SchemaNames} :
            s.metadata[k] = FileMetaData([before EXCEPT !.names = names], f)

\* C25 as stated: whenever no call is inside the list, also after a pull was
\* aborted by an engine error, every recorded path has a complete metadata
\* entry (row count, deletion vector, partition map).
C25_AbortLeavesCompleteEntries ==
    Quiet("orig") =>
        /\ Len(lists["orig"].metadata) = Len(lists["orig"].resolved_files)
        /\ \A k \in 1..Len(lists["orig"].resolved_files) : CompleteEntry(lists["orig"], k)

\* C25 witness: a pull was aborted between two batches; the list holds the
\* complete entries of the batches before.
C25_AbortedBetweenBatches ==
    \E t \in Threads :
        /\ th[t].pc = "throw"
        /\ lists["orig"].resolved_files # <<>>
        /\ \A k \in 1..Len(lists["orig"].resolved_files) : CompleteEntry(lists["orig"], k)

\* C26: an engine error during a pull leaves the call as an exception: the
\* call has no path and no empty path to return, the failing step does not
\* mark the list exhausted, and the unwinding records no result and changes
\* no list.
C26_FailedPullPropagates ==
    [][\A t \in Threads :
          /\ th'[t].pc = "throw" =>
                /\ th'[t].res = IOException
                /\ th'[t].res # EmptyPath
                /\ ~lists'[th'[t].l].files_exhausted
                /\ lock'[th'[t].l] = t
          /\ th[t].pc = "throw" =>
                /\ th'[t].pc \in {"throw", "idle"}
                /\ ret' = ret
                /\ lists' = lists]_vars

\* C26 witness: a GetTotalFileCount call failed after it had found a file,
\* and another call on the list went on to pull.
C26_CallAfterFailedCall ==
    \E t, u \in Threads :
        /\ t # u
        /\ th[t].pc = "pull"
        /\ th[u].pc = "idle"
        /\ lists["orig"].resolved_files # <<>>
        /\ ~lists["orig"].files_exhausted
        /\ forced["orig"]
        /\ \A i \in Indices : ret["orig"][i] = NoCall
        /\ th[t].op = "GetFile"

BindPcs == {"bind_store", "bind_ret"}

\* C27: a Bind on a list that has not bound opens the snapshot if the list
\* has none and goes on to read the schema; a Bind on a list that has bound
\* returns the stored names and types, which are those the first Bind read,
\* without opening a snapshot, reading the schema or changing the list; the
\* list never forgets that it has bound, and no two Bind calls are inside the
\* list at a time.
C27_BindCached ==
    [][/\ \A t \in Threads :
            (th[t].pc = "idle" /\ th'[t].pc \in BindPcs) =>
                LET s == lists[th'[t].l]
                IN  IF s.have_bound
                       THEN /\ th'[t].pc = "bind_ret"
                            /\ th'[t].res = <<SchemaNames, SchemaTypes>>
                            /\ lists' = lists
                            /\ opens' = opens
                       ELSE /\ th'[t].pc = "bind_store"
                            /\ opens' = IF s.snapshot = NoSnapshot THEN opens + 1 ELSE opens
       /\ \A t \in Threads :
            (th[t].pc = "bind_store" /\ th'[t].pc = "bind_ret") =>
                /\ th'[t].res = <<SchemaNames, SchemaTypes>>
                /\ lists'[th[t].l].have_bound
       /\ lists["orig"].have_bound =>
            /\ lists'["orig"].have_bound
            /\ lists'["orig"].names = lists["orig"].names
            /\ lists'["orig"].types = lists["orig"].types
       /\ Cardinality({t \in Threads : th'[t].pc \in BindPcs}) <= 1
       /\ opens' <= 1]_vars

\* C27 witness: a Bind returns on a list whose files were discovered with the
\* names already bound, that is after an earlier Bind.
C27_LaterBindReturned ==
    \E t \in Threads :
        /\ th[t].pc = "bind_ret"
        /\ \E k \in 1..Len(lists["orig"].metadata) :
              lists["orig"].metadata[k].partition_map # <<>>

\* What holds of the version of each single list: after a GetFile has
\* returned the scan is open, it was opened once, the version is that of the
\* list's snapshot, a GetVersion call answers it, and every entry carries it.
VersionPinnedPerList ==
    \A l \in Alive :
        LET s == lists[l]
        IN  /\ (\E i \in Indices : ret[l][i] # NoCall) => s.initialized_scan
            /\ s.scan_inits <= 1
            /\ s.initialized_scan =>
                  /\ s.version = s.snapshot.version
                  /\ s.version \in SnapshotVersion..(SnapshotVersion + MaxCommits)
                  /\ \A k \in 1..Len(s.metadata) :
                        s.metadata[k].delta_snapshot_version = s.version
                  /\ \A t \in Threads :
                        (th[t].pc = "ver_ret" /\ th[t].l = l) => th[t].res = s.version

\* C28 as stated: the version of a list is pinned as above, and a filtered
\* list has the version of the list it was made from.
C28_VersionPinned ==
    /\ VersionPinnedPerList
    /\ ("fork" \in forked /\ lists["fork"].initialized_scan /\ lists["orig"].initialized_scan)
          => lists["fork"].version = lists["orig"].version

\* C28 witness: the filtered list got the open snapshot of its parent, the
\* table has a commit since, and both lists report the old version.
C28_SharedSnapshotSameVersion ==
    /\ "fork" \in forked
    /\ lists["fork"].initialized_scan /\ lists["orig"].initialized_scan
    /\ head > SnapshotVersion
    /\ lists["fork"].version = SnapshotVersion
    /\ lists["orig"].version = SnapshotVersion
    /\ lists["fork"].resolved_files # <<>>

\* C29: the counts recorded in the info of the plan node change only when a
\* diagnostic pushdown records: the total, once valid, stays as it is, and is
\* first set to the total of the list pushed into; the filtered count, once
\* valid, never grows; the call raises an internal error exactly when its
\* parent total is larger than the recorded total or its fork total larger
\* than the recorded filtered count, and otherwise records its fork total.
C29_DiagnosticAccounting ==
    [][/\ info.total_files # INVALID_INDEX => info'.total_files = info.total_files
       /\ info.filtered_files # INVALID_INDEX =>
             /\ info'.filtered_files # INVALID_INDEX
             /\ info'.filtered_files <= info.filtered_files
       /\ info' # info => \E t \in Threads : th[t].pc = "cfp_record"
       /\ \A t \in Threads :
             (th[t].pc = "cfp_record" /\ th'[t].pc = "cfp_ret") =>
                 LET larger_total == /\ info.total_files # INVALID_INDEX
                                     /\ th[t].old_total > info.total_files
                     larger_filtered == /\ info.filtered_files # INVALID_INDEX
                                        /\ th[t].new_total > info.filtered_files
                 IN  /\ info.total_files = INVALID_INDEX =>
                           info'.total_files = th[t].old_total
                     /\ IF larger_total \/ larger_filtered
                           THEN th'[t].res = "InternalException"
                           ELSE /\ th'[t].res = "fork"
                                /\ info'.filtered_files = th[t].new_total]_vars

\* C29 witness: a diagnostic pushdown with a parent total below the recorded
\* total and a fork total below the recorded filtered count has succeeded.
C29_SmallerCountsAccepted ==
    /\ th[Planner].pc = "cfp_ret"
    /\ th[Planner].diag
    /\ th[Planner].res = "fork"
    /\ th[Planner].old_total < info.total_files
    /\ pushdowns >= 2
    /\ info.filtered_files = 0

\* The lock an operation is about to take: the lock guard of the next
\* statement of the thread.
WantedLocks(t) ==
    IF th[t].pc = "card_lock" THEN {th[t].l}
    ELSE IF th[t].pc \in {"cfp_snapshot", "cfp_old"} THEN {th[t].parent}
    ELSE IF th[t].pc = "cfp_new" THEN {th[t].child}
    ELSE IF th[t].pc = "idle" THEN Lists
    ELSE {}

HeldLocks(t) == {l \in Lists : lock[l] = t}

\* C30: a thread that is about to take the lock of a list does not hold that
\* lock, a thread outside every operation holds no lock, and no thread holds
\* the locks of two lists at a time.
C30_NoSelfDeadlock ==
    \A t \in Threads :
        /\ WantedLocks(t) \cap HeldLocks(t) = {}
        /\ Cardinality(HeldLocks(t)) <= 1

\* C30 witness: the pushdown counts the files of its filtered list under that
\* list's lock, the lock of the parent being free again.
C30_CountingForkUnlocked ==
    /\ th[Planner].op = "ComplexFilterPushdown"
    /\ th[Planner].stage = "new"
    /\ th[Planner].pc = "pull"
    /\ lock["fork"] = Planner
    /\ lock["orig"] = NoThread
    /\ lists["orig"].files_exhausted

\* The deletion vector of the file has been applied to the chunk at hand.
MaskingApplied == reader.pc \in {"select", "number", "done"} /\ reader.sv_calls > 0

\* The entries of column_mapping that fill position idx of the chunk.
MappingsTo(idx) == {k \in 1..Len(reader.column_mapping) : reader.column_mapping[k] = idx}

\* C31: whenever FinalizeChunk applies a deletion vector, file_row_number_idx
\* is set and is the index of a column of the chunk, which is the column
\* FinalizeChunk reads: a position of the projection that selects a column
\* named file_row_number, or an extra column behind the projection that
\* CreateColumnMapping mapped to the file's file_row_number column.
C31_MaskingHasOrdinalColumn ==
    MaskingApplied =>
        LET idx == reader.file_row_number_idx
            n   == Len(reader.global_column_ids)
        IN  /\ idx # INVALID_INDEX
            /\ idx >= 0 /\ idx < Len(reader.columns)
            /\ Len(reader.columns) = n + Len(reader.extra_columns)
            /\ reader.row_number_column = reader.columns[idx + 1]
            /\ \/ /\ idx < n
                   /\ ~IsRowIdColumnId(reader.global_column_ids[idx + 1])
                   /\ GlobalOf(idx).name = "file_row_number"
               \/ /\ idx >= n
                   /\ reader.extra_columns[idx - n + 1] = "BIGINT"
                   /\ Cardinality(MappingsTo(idx)) = 1
                   /\ \A k \in MappingsTo(idx) :
                          reader.local_columns[reader.column_ids[k] + 1].name
                              = "file_row_number"
                   /\ reader.row_number_column = FileColumn("file_row_number")

\* C31 witness: a chunk of a file with a deletion vector is being masked by
\* an extra column behind a projection of two columns.
C31_MaskedByTrailingColumn ==
    /\ reader.pc = "select"
    /\ reader.sv_calls > 0
    /\ Len(reader.global_column_ids) = 2
    /\ reader.file_row_number_idx >= 2
    /\ reader.selection_vector.ptr /\ reader.chunk # <<>>

\* C32: when file_row_number_idx is an index behind the projection,
\* CreateColumnMapping appends one mapping from the file's file_row_number
\* column to that index, and for a file without such a column it throws an
\* IOException and puts no constant and no mapping at the index; it throws
\* in no other case.
C32_TrailingRowNumberMapped ==
    LET idx == reader.file_row_number_idx
        n   == Len(reader.global_column_ids)
    IN  /\ (reader.pc \in {"done", "IOException"} /\ idx >= n) =>
               IF FileHasRowNumber
                  THEN /\ reader.pc = "done"
                       /\ MappingsTo(idx) = {Len(reader.column_mapping)}
                       /\ Len(reader.column_ids) = Len(reader.column_mapping)
                       /\ reader.local_columns[reader.column_ids[Len(reader.column_ids)] + 1].name
                              = "file_row_number"
                       /\ ~IsConstant(reader.constant_map, idx)
                       /\ ~reader.empty_columns
                  ELSE /\ reader.pc = "IOException"
                       /\ MappingsTo(idx) = {}
                       /\ ~IsConstant(reader.constant_map, idx)
        /\ reader.pc = "IOException" => (idx >= n /\ ~FileHasRowNumber)

\* C32 witness: the mapping of a file that has id and no file_row_number
\* column was aborted, file_row_number being an extra column.
C32_MissingRowNumberRaised ==
    /\ reader.pc = "IOException"
    /\ reader.file_row_number_idx >= Len(reader.global_column_ids)
    /\ reader.column_mapping # <<>>
    /\ ~FileHasRowNumber

====
